---------------------------- MODULE Spec2Model ----------------------------
(***************************************************************************)
(* Model of the JSON-Schema resolver (src/src/resolver.ts), its RefSet     *)
(* (src/unnamed/part_003) and the emitter (src/unnamed/part_002).          *)
(*                                                                         *)
(* The resolver is a set of async functions.  Every function call is a     *)
(* frame on the stack of the top-level call ("task") that made it, and     *)
(* the only place where a task is suspended is the load of a source        *)
(* document (readFile / fetch): between two loads the code of one task     *)
(* runs to its next load or to its end.  The two caches and the objects    *)
(* they hold are shared by all tasks of one resolver.                      *)
(***************************************************************************)
EXTENDS Integers, Sequences, FiniteSets, TLC

VARIABLES
  fs,                    \* the document set the resolver reads (never changes)
  rawSchemasByUrl,       \* Map<string, RawSchema>: href -> index in rawSchemas
  resolvedSchemasByUrl,  \* Map<string, ResolvedSchema>: href -> index in resolvedSchemas
  rawSchemas,            \* every RawSchema object created so far
  resolvedSchemas,       \* every ResolvedSchema object created so far
  tasks,                 \* the top-level calls made so far, in call order
  loads,                 \* history: per document, how often the Source Loader was invoked
  parsed,                \* history: per document, how often it was loaded and parsed
  rebound,               \* history: cache keys that were re-bound to another object
  rootSchemas,           \* emitter: the declared roots addSchema recorded
  defSchemas,            \* emitter: the declared definitions addSchema recorded
  schemaToModel,         \* emitter: Map<string, CadlType>, href -> declaration made
  unnamedCount,          \* emitter: the number of the last unnamed declaration
  code,                  \* emitter: the text emitted so far
  appended,              \* history: every `code +=` of a declaration, in order
  caught,                \* history: the schemas whose emission threw and was caught
  emitters               \* history: the emitter instances that were given up

vars == <<fs, rawSchemasByUrl, resolvedSchemasByUrl, rawSchemas, resolvedSchemas,
          tasks, loads, parsed, rebound, rootSchemas, defSchemas, schemaToModel,
          unnamedCount, code, appended, caught, emitters>>

-----------------------------------------------------------------------------
(* Bounds of the model.                                                    *)

\* top-level calls (resolve, resolveSubschema, modelDecl) made on one resolver
MaxCalls == 3
\* calls that may be in flight at the same time in the concurrent specification
MaxInFlight == 2
\* a task may run 2^MaxStepsLog2 steps between two suspensions before it counts
\* as diverging
MaxStepsLog2 == 11
\* emitter instances made one after the other
MaxEmitters == 2

-----------------------------------------------------------------------------
(* Values.                                                                 *)

\* JavaScript's undefined, for strings and for object references
Undefined == "undefined"
NoObject == 0

Reverse(s) == [i \in 1..Len(s) |-> s[Len(s) + 1 - i]]

\* enum Version
v04 == 0
v06 == 1
v07 == 2
v201909 == 3
v202012 == 4

\* A URL: the document part, whether the href holds a '#', and the fragment read
\* as a JSON pointer (the segments after '#').  URL.hash is "" when ptr is <<>>.
Url(doc, hash, ptr) == [doc |-> doc, hash |-> hash, ptr |-> ptr]
DocUrl(doc) == Url(doc, FALSE, <<>>)
FragUrl(doc, ptr) == Url(doc, TRUE, ptr)

\* new URL(reference, base) for the references the documents and the code use:
\* "other.yaml", "other.yaml#/a/b", "#/a/b", "#"
NewUrl(reference, base) ==
  Url(IF reference.doc = "" THEN base.doc ELSE reference.doc, reference.hash, reference.ptr)

\* faulted variant of StripHash: the fragment is kept
StripHashKept(url) == url
\* url.hash = "" (rootSchemaUrl.hash = "" makes the href that of the document)
StripHash(url) == DocUrl(url.doc)
HasHash(url) == url.hash /\ url.ptr # <<>>


-----------------------------------------------------------------------------
(* Documents.  A parsed document is a tree: JSON pointer -> schema object, *)
(* and a schema object is a function from its own keys to their values.    *)
(* The value of $ref is the reference, of $defs / definitions / properties *)
(* / required the list of names in document order, of allOf the number of  *)
(* branches.                                                               *)

Ref(doc, ptr) == Url(doc, TRUE, ptr)
RefDoc(doc) == Url(doc, FALSE, <<>>)
Local(ptr) == Url("", TRUE, ptr)

\* A JSON value of `const` or `enum` is a record that names its type
JString(s) == [string |-> s]
JNumber(n) == [number |-> n]
JBoolean(b) == [boolean |-> b]

\* test/schemas/object.yaml and address.yaml (shortened)
ObjectYaml ==
  (<<>> :> ("$id" :> "Person" @@ "title" :> "Person" @@ "$schema" :> "2020-12"
            @@ "type" :> "object"
            @@ "properties" :> <<"address2", "address4", "age", "position">>
            @@ "required" :> <<"address2">>
            @@ "$defs" :> <<"addressLocal", "ageConstraints", "ObjectHasRef">>))
  @@ (<<"properties", "address2">> :> ("$ref" :> RefDoc("address.yaml")))
  @@ (<<"properties", "address4">> :> ("$ref" :> RefDoc("address")))
  @@ (<<"properties", "age">> :>
        ("type" :> "integer" @@ "$ref" :> Local(<<"$defs", "ageConstraints">>)))
  @@ (<<"properties", "position">> :>
        ("description" :> "The position" @@ "type" :> "object"
         @@ "properties" :> <<"x">> @@ "required" :> <<"x">>))
  @@ (<<"properties", "position", "properties", "x">> :> ("type" :> "number"))
  @@ (<<"$defs", "addressLocal">> :>
        ("description" :> "A local address!" @@ "type" :> "object"
         @@ "properties" :> <<"street">>))
  @@ (<<"$defs", "addressLocal", "properties", "street">> :> ("type" :> "string"))
  @@ (<<"$defs", "ageConstraints">> :> ("maximum" :> 120 @@ "minimum" :> 0))
  @@ (<<"$defs", "ObjectHasRef">> :>
        ("description" :> "A special object"
         @@ "$ref" :> Local(<<"$defs", "addressLocal">>)))

AddressYaml ==
  (<<>> :> ("$id" :> "address" @@ "type" :> "object" @@ "properties" :> <<"street">>))
  @@ (<<"properties", "street">> :> ("type" :> "string"))

\* test/schemas/primitive-composition.yaml and primitives.yaml: chains of $ref
\* between definitions, with and without a type of their own
PrimYaml ==
  (<<>> :> ("$schema" :> "2020-12"
            @@ "$defs" :> <<"s1", "c", "s2", "s3", "s4", "s5", "s6">>))
  @@ (<<"$defs", "s1">> :> ("type" :> "string" @@ "maxLength" :> 10))
  @@ (<<"$defs", "c">> :> ("maxLength" :> 10))
  @@ (<<"$defs", "s2">> :> ("type" :> "string" @@ "$ref" :> Local(<<"$defs", "c">>)))
  @@ (<<"$defs", "s3">> :> ("$ref" :> Local(<<"$defs", "s1">>)))
  @@ (<<"$defs", "s4">> :> ("type" :> "number" @@ "$ref" :> Local(<<"$defs", "s3">>)))
  @@ (<<"$defs", "s5">> :> ("$ref" :> Local(<<"$defs", "c">>)))
  @@ (<<"$defs", "s6">> :> ("$ref" :> Ref("plain.yaml", <<"properties", "p">>)))

\* a root with no $ref and no title / $id
PlainYaml ==
  (<<>> :> ("type" :> "object" @@ "properties" :> <<"p">>))
  @@ (<<"properties", "p">> :> ("$ref" :> Local(<<>>) @@ "description" :> "self"))

\* a root with neither markers nor a type, and a root that only refers elsewhere
BareYaml == (<<>> :> ("description" :> "nothing else"))
LinkYaml == (<<>> :> ("$ref" :> RefDoc("address.yaml") @@ "title" :> "Link"))

\* test/schemas/allOf.yaml, and five definitions more: AllOfTwo (AllOfHappy without
\* properties of its own), AllOfRequiredRef (a branch refers to a declaration with
\* `required`), Derived (a $ref beside the allOf), DerivedRequired (a $ref beside
\* `required`), RModel
AllOfYaml ==
  (<<>> :> ("$id" :> "AllOfDefs" @@ "$schema" :> "2020-12"
            @@ "$defs" :> <<"AllOfHappy", "AllOfTwo", "NestedAllOf",
                            "NestedAllOfMustFlatten1", "NestedAllOfMustFlatten2",
                            "AllOfRequiredRef", "AllOfConstraints", "Derived",
                            "DerivedRequired",
                            "AModel", "BModel", "RModel", "description", "required">>))
  @@ (<<"$defs", "AllOfHappy">> :>
        ("type" :> "object" @@ "allOf" :> 2 @@ "properties" :> <<"local">>))
  @@ (<<"$defs", "AllOfHappy", "allOf", "0">> :> ("$ref" :> Local(<<"$defs", "AModel">>)))
  @@ (<<"$defs", "AllOfHappy", "allOf", "1">> :> ("$ref" :> Local(<<"$defs", "BModel">>)))
  @@ (<<"$defs", "AllOfHappy", "properties", "local">> :> ("type" :> "string"))
  @@ (<<"$defs", "AllOfTwo">> :> ("type" :> "object" @@ "allOf" :> 2))
  @@ (<<"$defs", "AllOfTwo", "allOf", "0">> :> ("$ref" :> Local(<<"$defs", "AModel">>)))
  @@ (<<"$defs", "AllOfTwo", "allOf", "1">> :> ("$ref" :> Local(<<"$defs", "BModel">>)))
  @@ (<<"$defs", "NestedAllOf">> :> ("type" :> "object" @@ "allOf" :> 2))
  @@ (<<"$defs", "NestedAllOf", "allOf", "0">> :> ("allOf" :> 1))
  @@ (<<"$defs", "NestedAllOf", "allOf", "0", "allOf", "0">> :>
        ("$ref" :> Local(<<"$defs", "AModel">>)))
  @@ (<<"$defs", "NestedAllOf", "allOf", "1">> :> ("allOf" :> 1))
  @@ (<<"$defs", "NestedAllOf", "allOf", "1", "allOf", "0">> :>
        ("$ref" :> Local(<<"$defs", "description">>)))
  @@ (<<"$defs", "NestedAllOfMustFlatten1">> :> ("type" :> "object" @@ "allOf" :> 2))
  @@ (<<"$defs", "NestedAllOfMustFlatten1", "allOf", "0">> :> ("allOf" :> 1))
  @@ (<<"$defs", "NestedAllOfMustFlatten1", "allOf", "0", "allOf", "0">> :>
        ("$ref" :> Local(<<"$defs", "AModel">>)))
  @@ (<<"$defs", "NestedAllOfMustFlatten1", "allOf", "1">> :> ("allOf" :> 1))
  @@ (<<"$defs", "NestedAllOfMustFlatten1", "allOf", "1", "allOf", "0">> :>
        ("required" :> <<"a">>))
  @@ (<<"$defs", "NestedAllOfMustFlatten2">> :>
        ("type" :> "object" @@ "allOf" :> 1 @@ "required" :> <<"a">>))
  @@ (<<"$defs", "NestedAllOfMustFlatten2", "allOf", "0">> :> ("allOf" :> 1))
  @@ (<<"$defs", "NestedAllOfMustFlatten2", "allOf", "0", "allOf", "0">> :>
        ("$ref" :> Local(<<"$defs", "AModel">>)))
  @@ (<<"$defs", "AllOfRequiredRef">> :> ("type" :> "object" @@ "allOf" :> 2))
  @@ (<<"$defs", "AllOfRequiredRef", "allOf", "0">> :>
        ("$ref" :> Local(<<"$defs", "AModel">>)))
  @@ (<<"$defs", "AllOfRequiredRef", "allOf", "1">> :>
        ("$ref" :> Local(<<"$defs", "RModel">>)))
  @@ (<<"$defs", "AllOfConstraints">> :>
        ("type" :> "object" @@ "properties" :> <<"a">> @@ "allOf" :> 2))
  @@ (<<"$defs", "AllOfConstraints", "properties", "a">> :> ("type" :> "string"))
  @@ (<<"$defs", "AllOfConstraints", "allOf", "0">> :>
        ("$ref" :> Local(<<"$defs", "description">>)))
  @@ (<<"$defs", "AllOfConstraints", "allOf", "1">> :>
        ("$ref" :> Local(<<"$defs", "required">>)))
  @@ (<<"$defs", "Derived">> :>
        ("$ref" :> Local(<<"$defs", "AModel">>) @@ "allOf" :> 1))
  @@ (<<"$defs", "Derived", "allOf", "0">> :> ("$ref" :> Local(<<"$defs", "BModel">>)))
  @@ (<<"$defs", "DerivedRequired">> :>
        ("$ref" :> Local(<<"$defs", "AModel">>) @@ "required" :> <<"a">>))
  @@ (<<"$defs", "AModel">> :> ("type" :> "object" @@ "properties" :> <<"a">>))
  @@ (<<"$defs", "AModel", "properties", "a">> :> ("type" :> "string"))
  @@ (<<"$defs", "BModel">> :> ("type" :> "object" @@ "properties" :> <<"b">>))
  @@ (<<"$defs", "BModel", "properties", "b">> :> ("type" :> "string"))
  @@ (<<"$defs", "RModel">> :>
        ("type" :> "object" @@ "properties" :> <<"r">> @@ "required" :> <<"r">>))
  @@ (<<"$defs", "RModel", "properties", "r">> :> ("type" :> "string"))
  @@ (<<"$defs", "description">> :> ("description" :> "fancy object"))
  @@ (<<"$defs", "required">> :> ("required" :> <<"a">>))

\* a draft-04 document: its identifier is `id`, its definitions are `definitions`;
\* it also has a member named $defs
LegacyJson ==
  (<<>> :> ("$schema" :> "draft-04" @@ "id" :> "Legacy" @@ "type" :> "object"
            @@ "definitions" :> <<"d1", "d2">> @@ "$defs" :> <<"x1">>))
  @@ (<<"definitions", "d1">> :> ("type" :> "string"))
  @@ (<<"definitions", "d2">> :> ("$ref" :> Local(<<"definitions", "d1">>)))
  @@ (<<"$defs", "x1">> :> ("type" :> "number"))

\* a 2020-12 document: its definitions are `$defs`; it also has a member named
\* definitions
ModernJson ==
  (<<>> :> ("$schema" :> "2020-12" @@ "$id" :> "Modern" @@ "type" :> "object"
            @@ "$defs" :> <<"n1">> @@ "definitions" :> <<"o1">>))
  @@ (<<"$defs", "n1">> :> ("type" :> "string"))
  @@ (<<"definitions", "o1">> :> ("type" :> "string"))

\* two documents that declare the same $id, and one whose $id is the retrieval
\* URL of another
DupA == (<<>> :> ("$id" :> "shared" @@ "type" :> "object" @@ "title" :> "A"))
DupB == (<<>> :> ("$id" :> "shared" @@ "type" :> "string"))
DupC == (<<>> :> ("$id" :> "b.yaml" @@ "type" :> "number"))

\* a root whose $id names the identifier of DupA and that has no type
DupD == (<<>> :> ("$id" :> "shared" @@ "description" :> "no type"))

\* enumerations and constants of every JSON type, and a conditional schema
EnumsYaml ==
  (<<>> :> ("$schema" :> "2020-12"
            @@ "$defs" :> <<"Swatch", "Color", "Count", "Mixed", "Flags", "One", "Zero",
                            "Off", "Empty", "Cond", "Palette">>))
  @@ (<<"$defs", "Swatch">> :> ("type" :> "object" @@ "properties" :> <<"off">>))
  @@ (<<"$defs", "Swatch", "properties", "off">> :>
        ("$ref" :> Local(<<"$defs", "Off">>)))
  @@ (<<"$defs", "Color">> :>
        ("type" :> "string" @@ "enum" :> <<JString("red"), JString("green")>>))
  @@ (<<"$defs", "Count">> :>
        ("type" :> "number" @@ "enum" :> <<JNumber(1), JNumber(2)>>))
  @@ (<<"$defs", "Mixed">> :>
        ("type" :> "string" @@ "enum" :> <<JString("red"), JNumber(1)>>))
  @@ (<<"$defs", "Flags">> :>
        ("type" :> "boolean" @@ "enum" :> <<JBoolean(TRUE), JBoolean(FALSE)>>))
  @@ (<<"$defs", "One">> :> ("type" :> "number" @@ "const" :> JNumber(1)))
  @@ (<<"$defs", "Zero">> :> ("type" :> "number" @@ "const" :> JNumber(0)))
  @@ (<<"$defs", "Off">> :> ("type" :> "boolean" @@ "const" :> JBoolean(FALSE)))
  @@ (<<"$defs", "Empty">> :> ("type" :> "string" @@ "const" :> JString("")))
  @@ (<<"$defs", "Cond">> :> ("type" :> "object" @@ "if" :> TRUE @@ "then" :> TRUE))
  @@ (<<"$defs", "Palette">> :>
        ("type" :> "object" @@ "properties" :> <<"main", "none", "when">>
         @@ "required" :> <<"main">>))
  @@ (<<"$defs", "Palette", "properties", "main">> :>
        ("$ref" :> Local(<<"$defs", "Color">>)))
  @@ (<<"$defs", "Palette", "properties", "none">> :>
        ("$ref" :> Local(<<"$defs", "Zero">>)))
  @@ (<<"$defs", "Palette", "properties", "when">> :>
        ("$ref" :> Local(<<"$defs", "Cond">>)))

\* two roots whose titles are no identifiers
FirstYaml ==
  (<<>> :> ("title" :> "First thing" @@ "type" :> "object"
            @@ "properties" :> <<"next">>))
  @@ (<<"properties", "next">> :> ("$ref" :> RefDoc("second.yaml")))
SecondYaml == (<<>> :> ("title" :> "2nd" @@ "type" :> "string" @@ "maxLength" :> 5))

\* a definition with a keyword that a definition it refers to, which is no
\* declaration, has as well
LengthsYaml ==
  (<<>> :> ("$schema" :> "2020-12" @@ "$defs" :> <<"Short", "limit">>))
  @@ (<<"$defs", "Short">> :>
        ("type" :> "string" @@ "maxLength" :> 5 @@ "$ref" :> Local(<<"$defs", "limit">>)))
  @@ (<<"$defs", "limit">> :> ("maxLength" :> 10))

\* a titled root whose type is the empty string
BlankYaml == (<<>> :> ("title" :> "Blank" @@ "type" :> ""))

\* object schemas whose properties come from a folded $ref layer, a property named
\* model, a oneOf, and a model whose properties refer to a definition of type null
\* and to one of a type that has no scalar form
ShapesYaml ==
  (<<>> :> ("$schema" :> "2020-12"
            @@ "$defs" :> <<"base", "Ext", "Car", "Either", "Nothing", "Odd", "Holder">>))
  @@ (<<"$defs", "base">> :> ("properties" :> <<"inherited">>))
  @@ (<<"$defs", "base", "properties", "inherited">> :> ("type" :> "string"))
  @@ (<<"$defs", "Ext">> :>
        ("type" :> "object" @@ "properties" :> <<"own">>
         @@ "$ref" :> Local(<<"$defs", "base">>)))
  @@ (<<"$defs", "Ext", "properties", "own">> :> ("type" :> "string"))
  @@ (<<"$defs", "Car">> :>
        ("type" :> "object" @@ "properties" :> <<"model", "make", "year">>
         @@ "required" :> <<"model", "make">>))
  @@ (<<"$defs", "Car", "properties", "model">> :> ("type" :> "string"))
  @@ (<<"$defs", "Car", "properties", "make">> :> ("type" :> "string"))
  @@ (<<"$defs", "Car", "properties", "year">> :> ("type" :> "number"))
  @@ (<<"$defs", "Either">> :> ("oneOf" :> 2))
  @@ (<<"$defs", "Either", "oneOf", "0">> :> ("title" :> "Left" @@ "type" :> "string"))
  @@ (<<"$defs", "Either", "oneOf", "1">> :> ("type" :> "number"))
  @@ (<<"$defs", "Nothing">> :> ("type" :> "null"))
  @@ (<<"$defs", "Odd">> :> ("type" :> "custom"))
  @@ (<<"$defs", "Holder">> :> ("type" :> "object" @@ "properties" :> <<"none", "odd">>))
  @@ (<<"$defs", "Holder", "properties", "none">> :>
        ("$ref" :> Local(<<"$defs", "Nothing">>)))
  @@ (<<"$defs", "Holder", "properties", "odd">> :> ("$ref" :> Local(<<"$defs", "Odd">>)))

\* The document sets.  In "dup" identifiers collide; in every other set each
\* canonical URL identifies one document.
\* a root one of whose definitions refers to a node its document does not have
BrokenYaml ==
  (<<>> :> ("title" :> "Broken" @@ "type" :> "object" @@ "$schema" :> "2020-12"
            @@ "$defs" :> <<"good", "bad">>))
  @@ (<<"$defs", "good">> :> ("type" :> "string"))
  @@ (<<"$defs", "bad">> :> ("$ref" :> Local(<<"nowhere">>)))

\* $ref chains that come back: a property that refers to itself, two that refer to
\* each other, and a property and a definition that refer to their root
LoopYaml ==
  (<<>> :> ("title" :> "Loop" @@ "type" :> "object"
            @@ "properties" :> <<"me", "ping", "pong", "up">>))
  @@ (<<"properties", "me">> :> ("$ref" :> Local(<<"properties", "me">>)))
  @@ (<<"properties", "ping">> :> ("$ref" :> Local(<<"properties", "pong">>)))
  @@ (<<"properties", "pong">> :> ("$ref" :> Local(<<"properties", "ping">>)))
  @@ (<<"properties", "up">> :> ("$ref" :> Local(<<>>)))
BackYaml ==
  (<<>> :> ("title" :> "Back" @@ "type" :> "object" @@ "$schema" :> "2020-12"
            @@ "$defs" :> <<"up">>))
  @@ (<<"$defs", "up">> :> ("$ref" :> Local(<<>>)))

Files(name) ==
  CASE name = "person" -> ("object.yaml" :> ObjectYaml @@ "address.yaml" :> AddressYaml
                           @@ "link.yaml" :> LinkYaml)
    [] name = "prim"   -> ("prim.yaml" :> PrimYaml @@ "plain.yaml" :> PlainYaml
                           @@ "bare.yaml" :> BareYaml)
    [] name = "allOf"  -> ("allOf.yaml" :> AllOfYaml)
    [] name = "legacy" -> ("legacy.json" :> LegacyJson @@ "modern.json" :> ModernJson)
    [] name = "dup"    -> ("a.yaml" :> DupA @@ "b.yaml" :> DupB @@ "c.yaml" :> DupC
                           @@ "d.yaml" :> DupD)
    [] name = "enums"  -> ("enums.yaml" :> EnumsYaml)
    [] name = "unnamed" -> ("first.yaml" :> FirstYaml @@ "second.yaml" :> SecondYaml
                            @@ "blank.yaml" :> BlankYaml
                            @@ "lengths.yaml" :> LengthsYaml)
    [] name = "shapes" -> ("shapes.yaml" :> ShapesYaml)
    [] name = "broken" -> ("broken.yaml" :> BrokenYaml @@ "address.yaml" :> AddressYaml)
    [] name = "cyclic" -> ("loop.yaml" :> LoopYaml @@ "back.yaml" :> BackYaml)

\* The URLs the callers of the model ask resolve for
Requests(name) ==
  CASE name = "person" ->
         {DocUrl("object.yaml"), DocUrl("address.yaml"), DocUrl("address"),
          DocUrl("Person"), DocUrl("link.yaml"),
          FragUrl("object.yaml", <<"properties", "address2">>),
          FragUrl("object.yaml", <<"properties", "address4">>),
          FragUrl("object.yaml", <<"properties", "age">>),
          FragUrl("object.yaml", <<"$defs", "ObjectHasRef">>),
          FragUrl("object.yaml", <<"nowhere">>)}
    [] name = "prim" ->
         {DocUrl("prim.yaml"), DocUrl("plain.yaml"), DocUrl("bare.yaml"),
          FragUrl("plain.yaml", <<>>), DocUrl("missing.yaml"),
          FragUrl("prim.yaml", <<"$defs", "s2">>), FragUrl("prim.yaml", <<"$defs", "s3">>),
          FragUrl("prim.yaml", <<"$defs", "s4">>), FragUrl("prim.yaml", <<"$defs", "s5">>),
          FragUrl("prim.yaml", <<"$defs", "s6">>)}
    [] name = "allOf" ->
         {DocUrl("allOf.yaml"), DocUrl("AllOfDefs"),
          FragUrl("allOf.yaml", <<"$defs", "AllOfHappy">>),
          FragUrl("allOf.yaml", <<"$defs", "AllOfHappy", "allOf", "0">>)}
    [] name = "legacy" ->
         {DocUrl("legacy.json"), DocUrl("Legacy"),
          FragUrl("legacy.json", <<"definitions", "d2">>),
          FragUrl("legacy.json", <<"$defs", "d1">>),
          FragUrl("legacy.json", <<"$defs", "x1">>),
          FragUrl("modern.json", <<"$defs", "n1">>),
          FragUrl("modern.json", <<"definitions", "o1">>)}
    [] name = "dup" ->
         {DocUrl("a.yaml"), DocUrl("b.yaml"), DocUrl("c.yaml"), DocUrl("shared")}
    [] name = "broken" ->
         {DocUrl("broken.yaml"), DocUrl("address.yaml"), DocUrl("missing.yaml"),
          FragUrl("broken.yaml", <<"$defs", "good">>),
          FragUrl("broken.yaml", <<"$defs", "bad">>),
          FragUrl("address.yaml", <<"nowhere">>)}
    [] name = "cyclic" ->
         {DocUrl("loop.yaml"), DocUrl("back.yaml"),
          FragUrl("loop.yaml", <<"properties", "me">>),
          FragUrl("loop.yaml", <<"properties", "ping">>),
          FragUrl("loop.yaml", <<"properties", "up">>),
          FragUrl("back.yaml", <<"$defs", "up">>)}

\* The locations the callers of the emitter hand to addSchema
Schemas(name) ==
  CASE name = "person" -> {DocUrl("object.yaml"), DocUrl("address.yaml"), DocUrl("link.yaml")}
    [] name = "enums" -> {DocUrl("enums.yaml")}
    [] name = "unnamed" -> {DocUrl("first.yaml"), DocUrl("second.yaml"),
                            DocUrl("blank.yaml"), DocUrl("lengths.yaml")}
    [] name = "allOf" -> {DocUrl("allOf.yaml")}
    [] name = "dup" -> {DocUrl("a.yaml"), DocUrl("b.yaml"), DocUrl("d.yaml")}
    [] name = "shapes" -> {DocUrl("shapes.yaml")}

\* The relative pointers the callers pass to resolveSubschema: "0/<path>" and
\* "/<path>"
RelativePointers(name) ==
  CASE name = "person" -> {[abs |-> FALSE, path |-> <<"properties", "position">>],
                           [abs |-> TRUE, path |-> <<"properties", "position">>],
                           [abs |-> FALSE, path |-> <<"properties", "x">>]}
    [] name = "prim" -> {[abs |-> FALSE, path |-> <<"properties", "p">>],
                         [abs |-> TRUE, path |-> <<"properties", "p">>]}
    [] name = "allOf" -> {[abs |-> FALSE, path |-> <<"allOf", "0">>]}
    [] name = "legacy" -> {[abs |-> FALSE, path |-> <<"definitions", "d1">>]}
    [] name = "dup" -> {[abs |-> FALSE, path |-> <<"properties", "p">>]}
    [] name = "broken" -> {[abs |-> FALSE, path |-> <<"$defs", "good">>],
                           [abs |-> FALSE, path |-> <<"properties", "street">>]}
    [] name = "cyclic" -> {[abs |-> FALSE, path |-> <<"properties", "me">>],
                           [abs |-> FALSE, path |-> <<"properties", "up">>]}

-----------------------------------------------------------------------------
(* The state one task works on: the resolver's caches and objects, and the *)
(* task's own stack.  m.fs names the document set, m.files is the set.     *)

\* rawSchema.contents / resolvedSchema.contents: the subtree of the parsed document
\* the object was built from (cdoc is the file it was parsed from)
Contents(m, schema) == m.files[schema.cdoc][schema.ptr]

\* contents[key] is there and truthy
HasKey(contents, key) == key \in DOMAIN contents

detectVersionFromContents(contents, defaultVersion) ==
  IF ~HasKey(contents, "$schema") THEN defaultVersion
  ELSE CASE contents["$schema"] = "draft-04" -> v04
         [] contents["$schema"] = "draft-06" -> v06
         [] contents["$schema"] = "draft-07" -> v07
         [] contents["$schema"] = "2019-09" -> v201909
         [] contents["$schema"] = "2020-12" -> v202012
         [] OTHER -> defaultVersion

getId(contents, version) ==
  IF version = v04
    THEN (IF HasKey(contents, "id") THEN contents["id"] ELSE Undefined)
    ELSE (IF HasKey(contents, "$id") THEN contents["$id"] ELSE Undefined)

\* faulted variant of isDeclaration: a typed schema needs no marker
isDeclarationUnmarked(m, schema, type) ==
  LET contents == Contents(m, schema) IN
  \/ type # Undefined
  \/ HasKey(contents, "oneOf")
  \/ HasKey(contents, "allOf")
  \/ HasKey(contents, "anyOf")
\* faulted variant of isDeclaration: only a type written at the schema itself counts
isDeclarationOwnType(m, schema, type) ==
  LET contents == Contents(m, schema) IN
  /\ \/ schema.definitionName # Undefined
     \/ HasKey(contents, "title")
     \/ schema.id # Undefined
  /\ \/ HasKey(contents, "type")
     \/ HasKey(contents, "oneOf")
     \/ HasKey(contents, "allOf")
     \/ HasKey(contents, "anyOf")
\* isDeclaration(schema, type) of the resolver
isDeclaration(m, schema, type) ==
  LET contents == Contents(m, schema) IN
  /\ \/ schema.definitionName # Undefined
     \/ HasKey(contents, "title")
     \/ schema.id # Undefined
  /\ \/ type # Undefined
     \/ HasKey(contents, "oneOf")
     \/ HasKey(contents, "allOf")
     \/ HasKey(contents, "anyOf")

\* A stack frame: the function, where it is, and its locals.
Frame(fn) ==
  [fn |-> fn, pc |-> "start", url |-> DocUrl(""), a |-> NoObject, list |-> <<>>,
   i |-> 1, refset |-> <<>>, type |-> Undefined, refd |-> NoObject, out |-> <<>>,
   decl |-> FALSE, defs |-> <<>>, rel |-> [abs |-> FALSE, path |-> <<>>],
   override |-> Undefined, name |-> "", code |-> "", lines |-> <<>>,
   flattens |-> <<>>, spreads |-> <<>>, required |-> {}, j |-> 1]

\* What a function returns: an object, a list of objects, or both lists of
\* flattenAllOfs; defs is the Record getDefinitions returns, in key order.  A
\* CadlType is kind, name (its id) and code, and a string is code alone.
NoValue == [id |-> NoObject, list |-> <<>>, list2 |-> <<>>, defs |-> <<>>,
            flattens |-> <<>>, spreads |-> <<>>, kind |-> "", name |-> "", code |-> ""]
Value(id) == [NoValue EXCEPT !.id = id]
ListValue(list) == [NoValue EXCEPT !.list = list]

Top(m) == m.stack[Len(m.stack)]
SetTop(m, f) == [m EXCEPT !.stack[Len(m.stack)] = f]
\* `await callee(...)`: the caller continues at pc once the callee has returned
Call(m, f, pc, callee) ==
  [m EXCEPT !.stack = Append([m.stack EXCEPT ![Len(m.stack)] = [f EXCEPT !.pc = pc]], callee)]
Goto(m, f, pc) == SetTop(m, [f EXCEPT !.pc = pc])
Return(m, v) ==
  LET rest == SubSeq(m.stack, 1, Len(m.stack) - 1) IN
  [m EXCEPT !.stack = rest, !.ret = v,
            !.status = IF rest = <<>> THEN "done" ELSE m.status]
\* faulted variant of Handlers: emitSchema has no catch block
HandlersNone(m) == {}
\* the frames of emitSchema that wait inside their try block
Handlers(m) ==
  {k \in 1..Len(m.stack) : m.stack[k].fn = "emitSchema" /\ m.stack[k].pc = "try"}
\* An exception.  No frame of the resolver catches it; the innermost emitSchema
\* that awaits inside `try` returns the placeholder of its catch block, and
\* without one the call is rejected.  The history keeps the schema whose emission
\* threw and the schema of the caller that awaited it.
Throw(m, error) ==
  IF Handlers(m) = {}
    THEN [m EXCEPT !.stack = <<>>, !.status = "failed", !.error = error]
    ELSE LET k == CHOOSE h \in Handlers(m) : \A other \in Handlers(m) : other <= h IN
         [m EXCEPT !.stack = SubSeq(m.stack, 1, k - 1),
                   !.ret = [NoValue EXCEPT
                              !.kind = "expression",
                              !.code = "unknown /* error encountered emitting this type */"],
                   !.caught = Append(m.caught, [schema |-> m.stack[k].a, error |-> error,
                                                into |-> m.stack[k - 1].a]),
                   !.status = IF k = 1 THEN "done" ELSE m.status]

\* one more event counted under key
Count(counter, key) ==
  IF key \in DOMAIN counter THEN [counter EXCEPT ![key] = @ + 1] ELSE (key :> 1) @@ counter

\* map.set(key, object), recording a key that held another object
MapSet(map, key, id) == (key :> id) @@ map
RawSet(m, key, id) ==
  [m EXCEPT !.rawByUrl = MapSet(m.rawByUrl, key, id),
            !.rebound = IF key \in DOMAIN m.rawByUrl /\ m.rawByUrl[key] # id
                          THEN m.rebound \cup {<<"rawSchemasByUrl", key>>}
                          ELSE m.rebound]
\* faulted variant of ResolvedSet: the schema is not cached
ResolvedSetDropped(m, key, id) == m
ResolvedSet(m, key, id) ==
  [m EXCEPT !.resolvedByUrl = MapSet(m.resolvedByUrl, key, id),
            !.rebound = IF key \in DOMAIN m.resolvedByUrl /\ m.resolvedByUrl[key] # id
                          THEN m.rebound \cup {<<"resolvedSchemasByUrl", key>>}
                          ELSE m.rebound]

-----------------------------------------------------------------------------
(* resolver.ts, one definition per function; each handles the frame on top *)
(* of the stack at its current pc.                                         *)

\* resolve(reference, context): url is new URL(reference, context.baseUrl)
resolve(m, f) ==
  CASE f.pc = "start" ->
         IF f.url \in DOMAIN m.resolvedByUrl
           THEN Return(m, Value(m.resolvedByUrl[f.url]))
           ELSE Call(m, f, "gotRaw", [Frame("resolveRawSchema") EXCEPT !.url = f.url])
    [] f.pc = "gotRaw" ->
         Call(m, f, "gotSchemas", [Frame("createResolvedSchemas") EXCEPT !.a = m.ret.id])
    [] f.pc = "gotSchemas" -> Return(m, Value(m.ret.list[1]))

\* faulted variant of parseSourceFile: the canonical URL ignores the identifier
parseSourceFileNoCanonical(m, retrievalUrl) ==
  LET contents == m.files[retrievalUrl.doc][<<>>]
      version == detectVersionFromContents(contents, v202012)
      id == getId(contents, version)
  IN [retrievalUrl |-> retrievalUrl, canonicalUrl |-> retrievalUrl,
      cdoc |-> retrievalUrl.doc, ptr |-> <<>>, isDefinition |-> FALSE,
      definitionName |-> Undefined, version |-> version, id |-> id, isRoot |-> TRUE]
\* parseSourceFile(sourceFile, retrievalUrl): the RawSchema of a loaded document
parseSourceFile(m, retrievalUrl) ==
  LET contents == m.files[retrievalUrl.doc][<<>>]
      version == detectVersionFromContents(contents, v202012)
      id == getId(contents, version)
  IN [retrievalUrl |-> retrievalUrl,
      canonicalUrl |-> IF id # Undefined THEN DocUrl(id) ELSE retrievalUrl,
      cdoc |-> retrievalUrl.doc, ptr |-> <<>>, isDefinition |-> FALSE,
      definitionName |-> Undefined, version |-> version, id |-> id, isRoot |-> TRUE]

\* resolveRootSchema(reference): the cache, else the Source Loader and the parser
resolveRootSchema(m, f) ==
  CASE f.pc = "start" ->
         IF f.url \in DOMAIN m.rawByUrl
           THEN Return(m, Value(m.rawByUrl[f.url]))
           ELSE [Goto(m, f, "loaded") EXCEPT
                   !.status = "loading",
                   !.loads = Count(m.loads, f.url.doc),
                   !.loaderCalls = m.loaderCalls + 1]
    [] f.pc = "loaded" ->
         IF f.url.doc \notin DOMAIN m.files
           THEN Throw(m, "load")
           ELSE LET rawSchema == parseSourceFile(m, f.url)
                    id == Len(m.raws) + 1
                    m1 == [m EXCEPT !.raws = Append(m.raws, rawSchema),
                                    !.parsed = Count(m.parsed, f.url.doc)]
                    m2 == RawSet(m1, rawSchema.canonicalUrl, id)
                    m3 == RawSet(m2, rawSchema.retrievalUrl, id)
                IN Return(m3, Value(id))

\* the definition name of a fragment: a two-segment pointer into the definitions
DefinitionNameOf(rootSchema, path) ==
  IF /\ Len(path) = 2
     /\ \/ (rootSchema.version < v201909 /\ path[1] = "definitions")
        \/ path[1] = "$defs"
    THEN path[2] ELSE Undefined

\* resolveRawSchema(retrievalUrl)
resolveRawSchema(m, f) ==
  CASE f.pc = "start" ->
         IF f.url \in DOMAIN m.rawByUrl
           THEN Return(m, Value(m.rawByUrl[f.url]))
           ELSE Call(m, f, "gotRoot", [Frame("resolveRootSchema") EXCEPT !.url = StripHash(f.url)])
    [] f.pc = "gotRoot" ->
         LET rootSchema == m.raws[m.ret.id] IN
         IF ~HasHash(f.url) THEN Return(m, Value(m.ret.id))
         ELSE IF f.url.ptr \notin DOMAIN m.files[rootSchema.cdoc]
           THEN Throw(m, "pointer")
           ELSE
             LET contents == m.files[rootSchema.cdoc][f.url.ptr]
                 definitionName == DefinitionNameOf(rootSchema, f.url.ptr)
                 canonicalUrl == Url(rootSchema.canonicalUrl.doc, TRUE, f.url.ptr)
                 version == detectVersionFromContents(contents, rootSchema.version)
                 rawSchema ==
                   [retrievalUrl |-> f.url, canonicalUrl |-> canonicalUrl,
                    cdoc |-> rootSchema.cdoc, ptr |-> f.url.ptr,
                    isDefinition |-> definitionName # Undefined,
                    definitionName |-> definitionName, version |-> version,
                    id |-> getId(contents, version), isRoot |-> FALSE]
                 id == Len(m.raws) + 1
                 m1 == [m EXCEPT !.raws = Append(m.raws, rawSchema)]
                 m2 == RawSet(m1, f.url, id)
                 m3 == RawSet(m2, canonicalUrl, id)
             IN Return(m3, Value(id))

\* resolveSchemaReferences(schema): f.a is the schema whose $ref is followed next
resolveSchemaReferences(m, f) ==
  LET next(schema) ==
        [Frame("resolveRawSchema") EXCEPT
           !.url = NewUrl(Contents(m, schema)["$ref"], schema.retrievalUrl)]
  IN
  CASE f.pc = "start" ->
         IF ~HasKey(Contents(m, m.raws[f.a]), "$ref")
           THEN Return(m, ListValue(<<>>))
           ELSE Call(m, f, "gotRef", next(m.raws[f.a]))
    [] f.pc = "gotRef" ->
         LET refSchema == m.ret.id
             schemas == Append(f.list, refSchema)
         IN IF ~HasKey(Contents(m, m.raws[refSchema]), "$ref")
              THEN Return(m, ListValue(schemas))
              ELSE Call(m, [f EXCEPT !.list = schemas, !.a = refSchema], "gotRef",
                        next(m.raws[refSchema]))

\* the object createResolvedSchema builds: { ...rawSchema, refs: [], refset,
\* isDeclaration, definitions: {} }; type and referencedSchema are not set yet
NewResolvedSchema(rawSchema, refset, isDecl) ==
  [retrievalUrl |-> rawSchema.retrievalUrl, canonicalUrl |-> rawSchema.canonicalUrl,
   cdoc |-> rawSchema.cdoc, ptr |-> rawSchema.ptr,
   isDefinition |-> rawSchema.isDefinition, definitionName |-> rawSchema.definitionName,
   version |-> rawSchema.version, id |-> rawSchema.id, isRoot |-> rawSchema.isRoot,
   refs |-> <<>>, refset |-> refset, isDeclaration |-> isDecl,
   referencedSchema |-> NoObject, type |-> Undefined, definitions |-> <<>>]

\* createResolvedSchema(rawSchema, refset, isDeclaration): f.a is the rawSchema,
\* f.refd the object built
createResolvedSchema(m, f) ==
  LET rawSchema == m.raws[f.a] IN
  CASE f.pc = "start" ->
         IF rawSchema.retrievalUrl \in DOMAIN m.resolvedByUrl
           THEN Return(m, Value(m.resolvedByUrl[rawSchema.retrievalUrl]))
         ELSE IF rawSchema.canonicalUrl \in DOMAIN m.resolvedByUrl
           THEN Return(m, Value(m.resolvedByUrl[rawSchema.canonicalUrl]))
         ELSE
           LET id == Len(m.resolveds) + 1
               m1 == [m EXCEPT !.resolveds =
                        Append(m.resolveds, NewResolvedSchema(rawSchema, f.refset, f.decl))]
               m2 == ResolvedSet(m1, rawSchema.retrievalUrl, id)
               m3 == ResolvedSet(m2, rawSchema.canonicalUrl, id)
           IN IF rawSchema.isRoot
                THEN Call(m3, [f EXCEPT !.refd = id], "gotDefinitions",
                          [Frame("getDefinitions") EXCEPT !.a = id])
                ELSE Return(m3, Value(id))
    [] f.pc = "gotDefinitions" ->
         Return([m EXCEPT !.resolveds[f.refd].definitions = m.ret.defs], Value(f.refd))

\* the key of the definitions container getDefinitions reads
DefKey(version) == IF version < v201909 THEN "definitions" ELSE "$defs"

\* getDefinitions(schema): f.a is the schema, f.i the index of the next definition
getDefinitions(m, f) ==
  LET schema == m.resolveds[f.a]
      defKey == DefKey(schema.version)
      contents == Contents(m, schema)
  IN
  CASE f.pc = "start" ->
         IF ~HasKey(contents, defKey)
           THEN Return(m, NoValue)
           ELSE Goto(m, f, "loop")
    [] f.pc = "loop" ->
         IF f.i <= Len(contents[defKey])
           THEN Call(m, f, "gotDefinition",
                     [Frame("resolve") EXCEPT
                        !.url = NewUrl(Local(<<defKey, contents[defKey][f.i]>>),
                                       schema.retrievalUrl)])
           ELSE Return(m, [NoValue EXCEPT !.defs = f.defs])
    [] f.pc = "gotDefinition" ->
         Goto(m, [f EXCEPT !.defs = Append(f.defs, <<contents[defKey][f.i], m.ret.id>>),
                           !.i = f.i + 1], "loop")

\* faulted variant of InheritedType: the far end of the chain wins
InheritedTypeFarthest(contents, type) ==
  IF type # Undefined THEN type
  ELSE IF HasKey(contents, "type") THEN contents["type"] ELSE Undefined
\* type = ref.contents.type ?? type
InheritedType(contents, type) ==
  IF HasKey(contents, "type") THEN contents["type"] ELSE type

\* faulted variant of ChainOf: the order of the chain is not restored
ChainOfUnreversed(refs) == refs
\* refs.slice(0, i).reverse(): the chain of a declaration, nearest node first
ChainOf(refs) == Reverse(refs)

\* array.slice(start, end)
Slice(list, start, end) == SubSeq(list, start + 1, end)

\* createResolvedSchemas(rawSchema): f.a is the rawSchema, f.list the chain from the
\* far end of the $ref chain to rawSchema, f.refset the current RefSet, f.refd the
\* last declaration made, f.out the result so far
createResolvedSchemas(m, f) ==
  CASE f.pc = "start" ->
         Call(m, f, "gotRefs", [Frame("resolveSchemaReferences") EXCEPT !.a = f.a])
    [] f.pc = "gotRefs" ->
         Goto(m, [f EXCEPT !.list = Append(Reverse(m.ret.list), f.a), !.i = 1], "loop")
    [] f.pc = "loop" ->
         IF f.i <= Len(f.list)
           THEN LET ref == f.list[f.i]
                    contents == Contents(m, m.raws[ref])
                    refset == Append(f.refset, ref)
                    type == InheritedType(contents, f.type)
                    g == [f EXCEPT !.refset = refset, !.type = type]
                IN IF isDeclaration(m, m.raws[ref], type)
                     THEN Call(m, g, "gotDeclaration",
                               [Frame("createResolvedSchema") EXCEPT
                                  !.a = ref, !.refset = refset, !.decl = TRUE])
                     ELSE Goto(m, [g EXCEPT !.i = f.i + 1], "loop")
         ELSE IF Len(f.refset) > 0
           THEN Call(m, f, "gotLeftover",
                     [Frame("createResolvedSchema") EXCEPT
                        !.a = f.a, !.refset = f.refset, !.decl = FALSE])
           ELSE Return(m, ListValue(Reverse(f.out)))
    [] f.pc = "gotDeclaration" ->
         LET schema == m.ret.id
             m1 == [m EXCEPT !.resolveds[schema] =
                      [@ EXCEPT !.referencedSchema = f.refd, !.type = f.type,
                                !.refs = ChainOf(Slice(f.list, 0, f.i - 1))]]
         IN Goto(m1, [f EXCEPT !.out = Append(f.out, schema), !.refset = <<>>,
                               !.refd = schema, !.i = f.i + 1], "loop")
    [] f.pc = "gotLeftover" ->
         LET schema == m.ret.id
             m1 == [m EXCEPT !.resolveds[schema] =
                      [@ EXCEPT !.referencedSchema = f.refd, !.type = f.type,
                                !.refs = Tail(Reverse(f.list))]]
         IN Return(m1, ListValue(Reverse(Append(f.out, schema))))

\* jsonPointer.relative(ptr) as resolveSubschema uses it: "0/<path>" is <path>
\* below the node, "/<path>" is <path> below the root of the document
Relative(jsonPointer, rel) == IF rel.abs THEN rel.path ELSE jsonPointer \o rel.path

\* resolvedSchema.resolveSubschema(jsonPointer): f.a is the schema
resolveSubschema(m, f) ==
  LET schema == m.resolveds[f.a] IN
  SetTop(m, [Frame("resolve") EXCEPT
               !.url = NewUrl(Local(Relative(schema.ptr, f.rel)), schema.retrievalUrl)])

-----------------------------------------------------------------------------
(* ref-set.ts: a RefSet is the list of its layers (RawSchema objects).     *)

\* refset.has(key)
RefSetHas(m, schemas, key) ==
  \E i \in 1..Len(schemas) : HasKey(Contents(m, m.raws[schemas[i]]), key)

\* the layers that own key, in the order of refset.schemas
PotentialValues(m, schemas, key) ==
  SelectSeq(schemas, LAMBDA id : HasKey(Contents(m, m.raws[id]), key))

\* Resolver.first and Resolver.last: which of several layers gives the value
ResolverFirst(values) == values[1]
ResolverLast(values) == values[Len(values)]

\* refset.get(key) with the default resolver, for a key some layer owns
RefSetGet(m, schemas, key) ==
  LET values == PotentialValues(m, schemas, key)
      layer == IF Len(values) = 1 THEN values[1] ELSE ResolverFirst(values)
  IN Contents(m, m.raws[layer])[key]

\* refset.keys(): the keys of all layers, each once
RefSetKeys(m, schemas) ==
  UNION {DOMAIN Contents(m, m.raws[schemas[i]]) : i \in 1..Len(schemas)}

\* resolvedSchema.has / get / keys hand over to the RefSet
SchemaHas(m, id, key) == RefSetHas(m, m.resolveds[id].refset, key)
SchemaGet(m, id, key) == RefSetGet(m, m.resolveds[id].refset, key)
SchemaKeys(m, id) == RefSetKeys(m, m.resolveds[id].refset)

-----------------------------------------------------------------------------
(* cadl-emitter: values and text.                                          *)

\* what JavaScript takes for true in a condition
Truthy(v) ==
  CASE "string" \in DOMAIN v -> v.string # ""
    [] "number" \in DOMAIN v -> v.number # 0
    [] "boolean" \in DOMAIN v -> v.boolean

\* JSON.stringify(value): a string is quoted, a number printed in decimal, a
\* boolean is true or false
Stringify(v) ==
  CASE "string" \in DOMAIN v -> ToString(v.string)
    [] "number" \in DOMAIN v -> ToString(v.number)
    [] "boolean" \in DOMAIN v -> IF v.boolean THEN "true" ELSE "false"

\* array.join(separator)
RECURSIVE Join(_, _)
Join(lines, separator) ==
  IF lines = <<>> THEN ""
  ELSE IF Len(lines) = 1 THEN lines[1]
  ELSE lines[1] \o separator \o Join(Tail(lines), separator)

\* the characters of a string, in order
Chars(s) == [i \in 1..Len(s) |-> SubSeq(s, i, i)]

\* idPattern = /^\p{XID_Start}\p{XID_Continue}*$/u, for ASCII text
XIDStart ==
  {"a", "b", "c", "d", "e", "f", "g", "h", "i", "j", "k", "l", "m", "n", "o", "p", "q",
   "r", "s", "t", "u", "v", "w", "x", "y", "z", "A", "B", "C", "D", "E", "F", "G", "H",
   "I", "J", "K", "L", "M", "N", "O", "P", "Q", "R", "S", "T", "U", "V", "W", "X", "Y",
   "Z"}
XIDContinue == XIDStart \cup {"0", "1", "2", "3", "4", "5", "6", "7", "8", "9", "_"}
MatchesIdPattern(s) ==
  /\ Len(s) > 0
  /\ Chars(s)[1] \in XIDStart
  /\ \A i \in 2..Len(s) : Chars(s)[i] \in XIDContinue

\* value.replace(/\\/g, "\\\\") and value.indexOf("\n") > -1
RECURSIVE EscapeBackslashes(_)
EscapeBackslashes(s) ==
  IF s = "" THEN ""
  ELSE (IF SubSeq(s, 1, 1) = "\\" THEN "\\\\" ELSE SubSeq(s, 1, 1))
         \o EscapeBackslashes(SubSeq(s, 2, Len(s)))
HasNewline(s) == \E i \in 1..Len(s) : SubSeq(s, i, i) = "\n"

\* !type: the type is undefined or the empty string
NoTypeAt(type) == type \in {Undefined, ""}

\* A `type` that is an array is written "[a,b]": Array.isArray(type) and its
\* entries
IsArrayType(type) == Len(type) > 0 /\ SubSeq(type, 1, 1) = "["
RECURSIVE SplitTypes(_, _)
SplitTypes(s, word) ==
  IF s = "" THEN <<>>
  ELSE LET c == SubSeq(s, 1, 1)
           rest == SubSeq(s, 2, Len(s))
       IN IF c = "[" THEN SplitTypes(rest, "")
          ELSE IF c = "," \/ c = "]" THEN <<word>> \o SplitTypes(rest, "")
          ELSE SplitTypes(rest, word \o c)
TypeEntries(type) == SplitTypes(type, "")

\* JSONSchemaTypeToCadlIntrinsic
JSONSchemaTypeToCadlIntrinsic ==
  ("string" :> "string") @@ ("null" :> "null") @@ ("number" :> "float64")
  @@ ("integer" :> "safeint") @@ ("boolean" :> "boolean")

\* the CadlTypes as values
Declaration(schema, name, text) ==
  [NoValue EXCEPT !.kind = "declaration", !.id = schema, !.name = name, !.code = text]
Expression(text) == [NoValue EXCEPT !.kind = "expression", !.code = text]
Intrinsic(name) == [NoValue EXCEPT !.kind = "intrinsic", !.name = name]
\* JSONSchemaTypeToCadlIntrinsic.get(type)!, which is undefined for other types
IntrinsicOf(type) ==
  IF type \in DOMAIN JSONSchemaTypeToCadlIntrinsic
    THEN Intrinsic(JSONSchemaTypeToCadlIntrinsic[type])
    ELSE [NoValue EXCEPT !.kind = "undefined"]

\* cadlReference(type)
cadlReference(type) == IF type.kind = "expression" THEN type.code ELSE type.name

\* schema.get(key) with a value for the key no layer owns
SchemaGetOr(m, id, key, none) ==
  IF SchemaHas(m, id, key) THEN SchemaGet(m, id, key) ELSE none

\* applyValidations(schema)
applyValidations(m, id) ==
  LET decorator(key, name) ==
        IF SchemaHas(m, id, key)
          THEN "@" \o name \o "(" \o ToString(SchemaGet(m, id, key)) \o ")\n"
          ELSE ""
      description == SchemaGetOr(m, id, "description", "")
  IN decorator("maxLength", "maxLength")
     \o decorator("minLength", "minLength")
     \o (IF SchemaHas(m, id, "pattern")
           THEN "@pattern(\"" \o EscapeBackslashes(SchemaGet(m, id, "pattern")) \o "\")\n"
           ELSE "")
     \o decorator("minimum", "minValue")
     \o decorator("maximum", "maxValue")
     \o decorator("exclusiveMinimum", "exclusiveMinValue")
     \o decorator("exclusiveMaximum", "exclusiveMaxValue")
     \o decorator("multipleOf", "multipleOf")
     \o (IF ~SchemaHas(m, id, "description") THEN ""
         ELSE IF HasNewline(description)
           THEN "@doc(\"\"\"\n" \o description \o "\n\"\"\")\n"
           ELSE "@doc(\"" \o description \o "\")\n")
     \o decorator("maxItems", "maxItems")
     \o decorator("minItems", "minItems")

\* declarationName(schema): the name, and the machine with the counter it used
declarationName(m, id) ==
  LET schema == m.resolveds[id]
      contents == Contents(m, schema)
  IN IF schema.definitionName # Undefined
       THEN [m |-> m, name |-> schema.definitionName]
     ELSE IF HasKey(contents, "title") /\ MatchesIdPattern(contents["title"])
       THEN [m |-> m, name |-> contents["title"]]
     ELSE IF HasKey(contents, "$id") /\ MatchesIdPattern(contents["$id"])
       THEN [m |-> m, name |-> contents["$id"]]
     ELSE [m |-> [m EXCEPT !.unnamedCount = m.unnamedCount + 1],
           name |-> "unnamed" \o ToString(m.unnamedCount + 1)]

\* createCadlDecl(schema): the declaration is registered before it has any code
createCadlDecl(m, id) ==
  LET named == declarationName(m, id) IN
  [m |-> [named.m EXCEPT !.schemaToModel =
            MapSet(named.m.schemaToModel, m.resolveds[id].retrievalUrl,
                   Declaration(id, named.name, ""))],
   name |-> named.name]

\* `cadlType.code += text; return cadlType` of the functions that build a
\* declaration: the object schemaToModel holds is the one that is returned
ReturnDeclaration(m, id, name, text) ==
  LET url == m.resolveds[id].retrievalUrl IN
  Return([m EXCEPT !.schemaToModel[url] = Declaration(id, name, text)],
         Declaration(id, name, text))

\* a caller reads kind, id or code of the CadlType it awaited
Awaited(m, Continue(_)) ==
  IF m.ret.kind = "undefined" THEN Throw(m, "TypeError") ELSE Continue(cadlReference(m.ret))

\* emitSchema(schema, typeOverride): f.a is the schema
emitSchema(m, f) ==
  LET schema == m.resolveds[f.a] IN
  CASE f.pc = "start" ->
         IF f.override = Undefined /\ schema.retrievalUrl \in DOMAIN m.schemaToModel
           THEN Return(m, m.schemaToModel[schema.retrievalUrl])
         ELSE IF f.override = Undefined /\ schema.isDeclaration
           THEN Call(m, f, "try", [Frame("emitSchemaToDeclaration") EXCEPT !.a = f.a])
           ELSE Call(m, f, "try", [Frame("emitSchemaToExpression") EXCEPT
                                     !.a = f.a, !.override = f.override])
    [] f.pc = "try" -> Return(m, m.ret)

\* the index in allSchemas of the schema the loop of emit is at (0 outside emit)
EmitIndex(m) == IF m.stack[1].fn = "emit" THEN m.stack[1].i - 1 ELSE 0

\* emitSchemaToDeclaration(schema): f.a is the schema
emitSchemaToDeclaration(m, f) ==
  LET type == m.resolveds[f.a].type
      decl(fn) == Call(m, f, "append", [Frame(fn) EXCEPT !.a = f.a])
      append(n, cadlType) ==
        Return([n EXCEPT !.code = n.code \o cadlType.code \o "\n\n",
                         !.appended = Append(n.appended,
                                             [schema |-> f.a, text |-> cadlType.code,
                                              at |-> EmitIndex(n)])],
               cadlType)
  IN
  CASE f.pc = "start" ->
         IF SchemaHas(m, f.a, "if")
           THEN LET named == declarationName(m, f.a) IN
                append(named.m,
                       Declaration(f.a, named.name,
                                   "// if/else containing schema aliased to unknown\nalias "
                                     \o named.name \o " = unknown;"))
         ELSE IF SchemaHas(m, f.a, "oneOf") \/ SchemaHas(m, f.a, "anyOf")
           THEN decl("unionDeclFromOneOrAnyOf")
         ELSE IF SchemaHas(m, f.a, "allOf") THEN decl("modelDecl")
         ELSE IF SchemaHas(m, f.a, "enum") \/ SchemaHas(m, f.a, "const")
           THEN decl("enumDecl")
         ELSE IF IsArrayType(type) THEN decl("unionDeclFromArray")
         ELSE IF type = "object" THEN decl("modelDecl")
         ELSE IF type = "array" THEN decl("arrayDecl")
         ELSE IF NoTypeAt(type) THEN Throw(m, "Couldn't find type for schema")
         ELSE decl("scalarDecl")
    [] f.pc = "append" -> append(m, m.ret)

\* the text of a union or enum declaration
Braces(keyword, name, variants) ==
  keyword \o " " \o name \o " {\n      " \o Join(variants, "\n") \o "\n    }"

\* unionDeclFromArray(schema): f.a is the schema, f.i the index of the next type
unionDeclFromArray(m, f) ==
  LET types == TypeEntries(m.resolveds[f.a].type) IN
  CASE f.pc = "start" ->
         LET made == createCadlDecl(m, f.a) IN
         Goto(made.m, [f EXCEPT !.name = made.name, !.i = 1], "loop")
    [] f.pc = "loop" ->
         IF f.i <= Len(types)
           THEN Call(m, f, "gotVariant",
                     [Frame("emitSchema") EXCEPT !.a = f.a, !.override = types[f.i]])
           ELSE ReturnDeclaration(m, f.a, f.name,
                                  applyValidations(m, f.a) \o Braces("union", f.name, f.lines))
    [] f.pc = "gotVariant" ->
         Awaited(m, LAMBDA ref :
           Goto(m, [f EXCEPT
                      !.lines = Append(f.lines, "variant" \o ToString(f.i - 1) \o ": "
                                                  \o ref \o ";"),
                      !.i = f.i + 1], "loop"))

\* unionDeclFromOneOrAnyOf(schema): f.a is the schema, f.i the index of the next
\* variant (from 0).  The variants are read from the key "variantProp".
unionDeclFromOneOrAnyOf(m, f) ==
  LET variantProp == IF SchemaHas(m, f.a, "oneOf") THEN "oneOf" ELSE "anyOf"
      variantSchemas == SchemaGetOr(m, f.a, "variantProp", 0)
  IN
  CASE f.pc = "start" ->
         LET made == createCadlDecl(m, f.a) IN
         Goto(made.m, [f EXCEPT !.name = made.name, !.i = 0], "loop")
    [] f.pc = "loop" ->
         IF f.i < variantSchemas
           THEN Call(m, f, "gotResolved",
                     [Frame("resolveSubschema") EXCEPT
                        !.a = f.a,
                        !.rel = [abs |-> FALSE, path |-> <<variantProp, ToString(f.i)>>]])
           ELSE ReturnDeclaration(m, f.a, f.name,
                  applyValidations(m, f.a)
                    \o (IF SchemaHas(m, f.a, "oneOf") THEN "// @oneOf\n" ELSE "")
                    \o Braces("union", f.name, f.lines))
    [] f.pc = "gotResolved" ->
         Call(m, [f EXCEPT !.code = SchemaGetOr(m, m.ret.id, "title",
                                                "variant" \o ToString(f.i))],
              "gotVariant", [Frame("emitSchema") EXCEPT !.a = m.ret.id])
    [] f.pc = "gotVariant" ->
         Awaited(m, LAMBDA ref :
           Goto(m, [f EXCEPT !.lines = Append(f.lines, f.code \o ": " \o ref \o ";"),
                             !.i = f.i + 1], "loop"))

\* schema.get("const") ? [schema.get("const")] : schema.get("enum")
Members(m, id) ==
  IF SchemaHas(m, id, "const") /\ Truthy(SchemaGet(m, id, "const"))
    THEN <<SchemaGet(m, id, "const")>>
  ELSE IF SchemaHas(m, id, "enum") THEN SchemaGet(m, id, "enum")
  ELSE Undefined

\* declKind of enumDecl
DeclKind(type) == IF type = "string" \/ type = "number" THEN "enum" ELSE "union"

\* enumDecl(schema): f.a is the schema; members.entries() of undefined throws
enumDecl(m, f) ==
  LET made == createCadlDecl(m, f.a)
      n == made.m
      members == Members(n, f.a)
      declKind == DeclKind(n.resolveds[f.a].type)
      prefix == IF declKind = "union" THEN "variant" ELSE "member"
      variants == [i \in 1..Len(members) |->
                     prefix \o ToString(i - 1) \o ": " \o Stringify(members[i]) \o ";"]
  IN IF members = Undefined
       THEN Throw(SetTop(n, f), "TypeError")
       ELSE ReturnDeclaration(n, f.a, made.name, Braces(declKind, made.name, variants))

\* enumExpression(schema): f.a is the schema
enumExpression(m, f) ==
  LET members == Members(m, f.a) IN
  IF members = Undefined
    THEN Throw(m, "TypeError")
    ELSE Return(m, Expression(Join([i \in 1..Len(members) |-> Stringify(members[i])],
                                    " | ")))

\* unionExpressionFromArray(schema): f.a is the schema, f.i the index of the next
\* type
unionExpressionFromArray(m, f) ==
  LET types == TypeEntries(m.resolveds[f.a].type) IN
  CASE f.pc = "start" ->
         IF f.i <= Len(types)
           THEN Call(m, f, "gotVariant",
                     [Frame("emitSchema") EXCEPT !.a = f.a, !.override = types[f.i]])
           ELSE Return(m, Expression(Join(f.lines, " | ")))
    [] f.pc = "gotVariant" ->
         Awaited(m, LAMBDA ref :
           Goto(m, [f EXCEPT !.lines = Append(f.lines, ref), !.i = f.i + 1], "start"))

\* unionExpressionFromOneOf(schema): f.a is the schema, f.i the index of the next
\* variant (from 0)
unionExpressionFromOneOf(m, f) ==
  LET variantProp == IF SchemaHas(m, f.a, "oneOf") THEN "oneOf" ELSE "anyOf" IN
  CASE f.pc = "start" -> Goto(m, [f EXCEPT !.i = 0], "loop")
    [] f.pc = "loop" ->
         IF f.i < SchemaGet(m, f.a, variantProp)
           THEN Call(m, f, "gotResolved",
                     [Frame("resolveSubschema") EXCEPT
                        !.a = f.a,
                        !.rel = [abs |-> FALSE, path |-> <<variantProp, ToString(f.i)>>]])
           ELSE Return(m, Expression(Join(f.lines, " | ")))
    [] f.pc = "gotResolved" ->
         Call(m, f, "gotVariant", [Frame("emitSchema") EXCEPT !.a = m.ret.id])
    [] f.pc = "gotVariant" ->
         Awaited(m, LAMBDA ref :
           Goto(m, [f EXCEPT !.lines = Append(f.lines, ref), !.i = f.i + 1], "loop"))

-----------------------------------------------------------------------------
(* cadl-emitter: the allOf flattening of a model declaration.              *)

\* faulted variant of HasNonAllOfProps: one keyword is never enough
HasNonAllOfPropsStrict(m, id) == Cardinality(SchemaKeys(m, id)) > 1
\* hasNonAllOfProps of flattenAllOfs
HasNonAllOfProps(m, id) ==
  IF SchemaHas(m, id, "allOf")
    THEN Cardinality(SchemaKeys(m, id)) > 1
    ELSE Cardinality(SchemaKeys(m, id)) > 0

\* flattenAllOfs(schema): f.a is the schema, f.list the references and f.out the
\* schemas found so far, f.i the index of the next allOf branch (from 0)
flattenAllOfs(m, f) ==
  LET allOfs == IF SchemaHas(m, f.a, "allOf") THEN SchemaGet(m, f.a, "allOf") ELSE 0 IN
  CASE f.pc = "start" ->
         LET schema == m.resolveds[f.a] IN
         Goto(m, [f EXCEPT
                    !.list = IF schema.referencedSchema # NoObject
                               THEN <<schema.referencedSchema>> ELSE <<>>,
                    !.out = IF HasNonAllOfProps(m, f.a) THEN <<f.a>> ELSE <<>>,
                    !.i = 0], "loop")
    [] f.pc = "loop" ->
         IF f.i < allOfs
           THEN Call(m, f, "gotResolved",
                     [Frame("resolveSubschema") EXCEPT
                        !.a = f.a,
                        !.rel = [abs |-> FALSE, path |-> <<"allOf", ToString(f.i)>>]])
           ELSE Return(m, [NoValue EXCEPT !.list = f.list, !.list2 = f.out])
    [] f.pc = "gotResolved" ->
         Call(m, f, "gotNested", [Frame("flattenAllOfs") EXCEPT !.a = m.ret.id])
    [] f.pc = "gotNested" ->
         Goto(m, [f EXCEPT !.list = f.list \o m.ret.list, !.out = f.out \o m.ret.list2,
                           !.i = f.i + 1], "loop")

\* faulted variant of FlattenRefs: only the schema itself is asked
FlattenRefsOwn(m, schemas) ==
  schemas # <<>> /\ SchemaHas(m, schemas[1], "required")
\* flattenRefs of modelDecl: a schema of allOfResults.schemas has `required`
FlattenRefs(m, schemas) ==
  \E i \in 1..Len(schemas) : SchemaHas(m, schemas[i], "required")

\* modelDecl(schema): f.a is the schema.  The value keeps allOfResults (list,
\* list2), the flattens and the spreads after the shift beside the declaration.
modelDecl(m, f) ==
  LET properties(n, g) ==
        Call(n, g, "gotProperties",
             [Frame("getObjectProperties") EXCEPT
                !.a = f.a, !.flattens = g.flattens, !.spreads = g.spreads])
  IN
  CASE f.pc = "start" ->
         Call(m, f, "gotAllOfResults", [Frame("flattenAllOfs") EXCEPT !.a = f.a])
    [] f.pc = "gotAllOfResults" ->
         LET made == createCadlDecl(m, f.a)
             n == made.m
             references == m.ret.list
             schemas == m.ret.list2
             flattenRefs == FlattenRefs(n, schemas)
             flattens == IF flattenRefs THEN references \o schemas ELSE schemas
             spreads == IF flattenRefs THEN <<>> ELSE references
             referencedSchema == n.resolveds[f.a].referencedSchema
             g == [f EXCEPT
                     !.name = made.name, !.list = references, !.out = schemas,
                     !.flattens = flattens,
                     !.spreads = IF referencedSchema # NoObject /\ spreads # <<>>
                                   THEN Tail(spreads) ELSE spreads,
                     !.code = Join([k \in 1..Len(flattens) |->
                                      applyValidations(n, flattens[k])], "")]
         IN IF referencedSchema # NoObject
              THEN Call(n, g, "gotIs", [Frame("emitSchema") EXCEPT !.a = referencedSchema])
              ELSE properties(n, g)
    [] f.pc = "gotIs" ->
         Awaited(m, LAMBDA ref : properties(m, [f EXCEPT !.lines = <<" is " \o ref>>]))
    [] f.pc = "gotProperties" ->
         LET text == f.code \o "model " \o f.name \o Join(f.lines, "") \o " " \o m.ret.code
             type == Declaration(f.a, f.name, text)
         IN Return([m EXCEPT !.schemaToModel[m.resolveds[f.a].retrievalUrl] = type],
                   [type EXCEPT !.list = f.list, !.list2 = f.out,
                                !.flattens = f.flattens, !.spreads = f.spreads])

\* isFalse(schema): `false`, or { not: {} }
isFalse(value) == "false" \in DOMAIN value \/ "not" \in DOMAIN value

\* The value of items, additionalItems and prefixItems: [schema |-> TRUE] for a
\* schema object, [array |-> n] for an array of n schemas, [false |-> TRUE] for
\* `false`; and [undefined |-> TRUE] for a key no layer owns.
NoItems == [undefined |-> TRUE]
IsItemsArray(value) == "array" \in DOMAIN value

\* arrayDecl(schema): f.a is the schema, f.i the index of the next item (from 0)
arrayDecl(m, f) ==
  LET schema == m.resolveds[f.a]
      itemsSchema == SchemaGetOr(m, f.a, "items", NoItems)
      prefixItemsSchema == SchemaGetOr(m, f.a, "prefixItems", NoItems)
      newer == schema.version >= v202012
      isClosed == IF newer THEN isFalse(itemsSchema)
                  ELSE isFalse(SchemaGetOr(m, f.a, "additionalItems", NoItems))
      items == IF newer THEN prefixItemsSchema ELSE itemsSchema
      itemsRef == IF newer THEN "prefixItems" ELSE "items"
  IN
  CASE f.pc = "start" ->
         LET made == createCadlDecl(m, f.a)
             g == [f EXCEPT !.name = made.name, !.code = applyValidations(made.m, f.a),
                            !.i = 0]
         IN IF (newer /\ IsItemsArray(prefixItemsSchema)) \/ IsItemsArray(itemsSchema)
              THEN (IF IsItemsArray(items) THEN Goto(made.m, g, "loop")
                    ELSE Throw(SetTop(made.m, g), "TypeError"))
            ELSE IF "schema" \in DOMAIN itemsSchema
              THEN Call(made.m, g, "gotItems",
                        [Frame("resolveSubschema") EXCEPT
                           !.a = f.a, !.rel = [abs |-> FALSE, path |-> <<"items">>]])
            ELSE IF schema.referencedSchema # NoObject
              THEN Call(made.m, g, "gotIs",
                        [Frame("emitSchema") EXCEPT !.a = schema.referencedSchema])
            ELSE ReturnDeclaration(made.m, f.a, g.name,
                                   g.code \o "model " \o g.name \o " is unknown[];")
    [] f.pc = "loop" ->
         IF f.i < items.array
           THEN Call(m, f, "gotResolved",
                     [Frame("resolveSubschema") EXCEPT
                        !.a = f.a,
                        !.rel = [abs |-> FALSE, path |-> <<itemsRef, ToString(f.i)>>]])
           ELSE ReturnDeclaration(m, f.a, f.name,
                  f.code
                    \o (IF isClosed THEN ""
                        ELSE "// JSON Schema was an open tuple, this is a closed tuple\n")
                    \o (IF schema.referencedSchema = NoObject THEN ""
                        ELSE "// JSON Schema tuple references another schema which isn't possible in Cadl\n")
                    \o "alias " \o f.name \o " = [" \o Join(f.lines, ", ") \o "]")
    [] f.pc = "gotResolved" ->
         Call(m, f, "gotItem", [Frame("emitSchema") EXCEPT !.a = m.ret.id])
    [] f.pc = "gotItem" ->
         Awaited(m, LAMBDA ref :
           Goto(m, [f EXCEPT !.lines = Append(f.lines, ref), !.i = f.i + 1], "loop"))
    [] f.pc = "gotItems" ->
         Call(m, f, "gotElement", [Frame("emitSchema") EXCEPT !.a = m.ret.id])
    [] f.pc = "gotElement" ->
         Awaited(m, LAMBDA ref :
           ReturnDeclaration(m, f.a, f.name,
                             f.code \o "model " \o f.name \o " is " \o ref \o "[];"))
    [] f.pc = "gotIs" ->
         Awaited(m, LAMBDA ref :
           ReturnDeclaration(m, f.a, f.name,
                             f.code \o "model " \o f.name \o " is " \o ref \o ";;"))

\* scalarDecl(schema) with getBaseType: f.a is the schema
scalarDecl(m, f) ==
  LET schema == m.resolveds[f.a]
      type == schema.type
      finish(n, name, baseType) ==
        LET ref == IF baseType.kind = "intrinsic" /\ baseType.name = name
                     THEN "TypeSpec." \o cadlReference(baseType)
                     ELSE cadlReference(baseType)
        IN ReturnDeclaration(n, f.a, name,
             applyValidations(n, f.a)
               \o (IF type \in {"string", "number", "integer", "boolean"}
                     THEN "scalar " \o name \o " extends " \o ref \o ";"
                     ELSE ""))
  IN
  CASE f.pc = "start" ->
         LET made == createCadlDecl(m, f.a) IN
         IF schema.referencedSchema # NoObject
           THEN Call(made.m, [f EXCEPT !.name = made.name], "gotBaseType",
                     [Frame("emitSchema") EXCEPT !.a = schema.referencedSchema])
         ELSE IF IntrinsicOf(type).kind = "undefined"
           THEN Throw(SetTop(made.m, f), "Couldn't find base type for scalar")
           ELSE finish(made.m, made.name, IntrinsicOf(type))
    [] f.pc = "gotBaseType" ->
         IF m.ret.kind = "undefined"
           THEN (IF IntrinsicOf(type).kind = "undefined"
                   THEN Throw(m, "Couldn't find base type for scalar")
                   ELSE finish(m, f.name, IntrinsicOf(type)))
           ELSE finish(m, f.name, m.ret)

\* emitSchemaToExpression(schema, typeOverride): f.a is the schema
emitSchemaToExpression(m, f) ==
  LET schema == m.resolveds[f.a]
      own == IF f.override # Undefined THEN f.override
             ELSE SchemaGetOr(m, f.a, "type", Undefined)
      type == IF ~NoTypeAt(own) THEN own ELSE schema.type
      tail(fn) == SetTop(m, [Frame(fn) EXCEPT !.a = f.a])
  IN
  CASE f.pc = "start" ->
         IF SchemaHas(m, f.a, "if")
           THEN Return(m, Expression("unknown /* schema contained if/else */"))
         ELSE IF SchemaHas(m, f.a, "enum") THEN tail("enumExpression")
         ELSE IF SchemaHas(m, f.a, "oneOf") \/ SchemaHas(m, f.a, "anyOf")
           THEN tail("unionExpressionFromOneOf")
         ELSE IF SchemaHas(m, f.a, "const")
           THEN Return(m, Expression(Stringify(SchemaGet(m, f.a, "const"))))
         ELSE IF NoTypeAt(own) /\ schema.referencedSchema # NoObject
           THEN SetTop(m, [Frame("emitSchema") EXCEPT !.a = schema.referencedSchema])
         ELSE IF NoTypeAt(type) THEN Return(m, Expression("unknown /* empty schema */"))
         ELSE IF IsArrayType(type) THEN tail("unionExpressionFromArray")
         ELSE IF type = "object"
           THEN Call(m, f, "gotProperties",
                     [Frame("getObjectProperties") EXCEPT !.a = f.a, !.flattens = <<f.a>>])
         ELSE IF type = "array"
           THEN Call(m, f, "gotItems",
                     [Frame("resolveSubschema") EXCEPT
                        !.a = f.a, !.rel = [abs |-> FALSE, path |-> <<"items">>]])
         ELSE Return(m, IntrinsicOf(type))
    [] f.pc = "gotProperties" -> Return(m, Expression(m.ret.code))
    [] f.pc = "gotItems" ->
         Call(m, f, "gotElement", [Frame("emitSchema") EXCEPT !.a = m.ret.id])
    [] f.pc = "gotElement" ->
         Awaited(m, LAMBDA ref : Return(m, Expression(ref \o "[]")))

\* the name as getObjectProperties writes it
PropertyName(name) == IF name = "model" THEN "\"model\"" ELSE name

\* getObjectProperties(schema, flattens, spreads): f.i is the index of the next
\* spread or property source, f.j of the next property of that source
getObjectProperties(m, f) ==
  LET propertySources == f.flattens
      names(source) == SchemaGetOr(m, source, "properties", <<>>)
      requiredOf(source) == SchemaGetOr(m, source, "required", <<>>)
      line(n, validations, cadlType) ==
        LET name == PropertyName(names(propertySources[f.i])[f.j]) IN
        Goto(n, [f EXCEPT
                   !.lines = Append(f.lines,
                     validations \o " \"" \o name \o "\""
                       \o (IF name \in f.required THEN "" ELSE "?")
                       \o ": " \o cadlReference(cadlType) \o ";"),
                   !.j = f.j + 1], "sources")
  IN
  CASE f.pc = "start" ->
         Goto(m, [f EXCEPT
                    !.required = UNION {{requiredOf(propertySources[k])[r] :
                                           r \in 1..Len(requiredOf(propertySources[k]))} :
                                        k \in 1..Len(propertySources)},
                    !.i = 1], "spreads")
    [] f.pc = "spreads" ->
         IF f.i <= Len(f.spreads)
           THEN Call(m, f, "gotSpread", [Frame("emitSchema") EXCEPT !.a = f.spreads[f.i]])
           ELSE Goto(m, [f EXCEPT !.i = 1, !.j = 1], "sources")
    [] f.pc = "gotSpread" ->
         Awaited(m, LAMBDA ref :
           Goto(m, [f EXCEPT !.lines = Append(f.lines, "... " \o ref \o ";"),
                             !.i = f.i + 1], "spreads"))
    [] f.pc = "sources" ->
         IF f.i > Len(propertySources)
           THEN Return(m, [NoValue EXCEPT
                             !.code = "{" \o Join([k \in 1..Len(f.lines) |-> "  " \o f.lines[k]],
                                                  "\n") \o "}"])
         ELSE IF f.j > Len(names(propertySources[f.i]))
           THEN Goto(m, [f EXCEPT !.i = f.i + 1, !.j = 1], "sources")
           ELSE Call(m, f, "gotProperty",
                     [Frame("resolveSubschema") EXCEPT
                        !.a = propertySources[f.i],
                        !.rel = [abs |-> FALSE,
                                 path |-> <<"properties", names(propertySources[f.i])[f.j]>>]])
    [] f.pc = "gotProperty" ->
         LET propertySchema == m.resolveds[m.ret.id]
             emit(id, validations) ==
               Call(m, [f EXCEPT !.code = validations], "gotType",
                    [Frame("emitSchema") EXCEPT !.a = id])
         IN IF propertySchema.isDeclaration THEN emit(m.ret.id, "")
            ELSE IF propertySchema.referencedSchema # NoObject
              THEN emit(propertySchema.referencedSchema, applyValidations(m, m.ret.id))
            ELSE IF \/ ~NoTypeAt(propertySchema.type)
                    \/ SchemaHas(m, m.ret.id, "oneOf")
                    \/ SchemaHas(m, m.ret.id, "anyOf")
                    \/ SchemaHas(m, m.ret.id, "allOf")
              THEN emit(m.ret.id, applyValidations(m, m.ret.id))
              ELSE line(m, applyValidations(m, m.ret.id), Intrinsic("unknown"))
    [] f.pc = "gotType" ->
         IF m.ret.kind = "undefined" THEN Throw(m, "TypeError")
         ELSE line(m, f.code, m.ret)

\* addSchema(location): f.url is the retrieval URL
addSchema(m, f) ==
  CASE f.pc = "start" -> Call(m, f, "gotRoot", [Frame("resolve") EXCEPT !.url = f.url])
    [] f.pc = "gotRoot" ->
         LET rootSchema == m.resolveds[m.ret.id]
             definitions == [k \in 1..Len(rootSchema.definitions) |->
                               rootSchema.definitions[k][2]]
         IN Return([m EXCEPT
                      !.rootSchemas = IF rootSchema.isDeclaration
                                        THEN Append(m.rootSchemas, m.ret.id)
                                        ELSE m.rootSchemas,
                      !.defSchemas = m.defSchemas
                                       \o SelectSeq(definitions,
                                                    LAMBDA def : m.resolveds[def].isDeclaration)],
                   NoValue)

\* faulted variant of AllSchemas: the definitions come first
AllSchemasDefsFirst(m) == m.defSchemas \o m.rootSchemas
\* const allSchemas = rootSchemas.concat(defSchemas)
AllSchemas(m) == m.rootSchemas \o m.defSchemas

\* emit(): f.list is allSchemas, f.i the index of the next schema.  The value is
\* the text handed to formatTypeSpec.
emit(m, f) ==
  CASE f.pc = "start" ->
         Goto(m, [f EXCEPT !.list = AllSchemas(m), !.i = 1], "loop")
    [] f.pc = "loop" ->
         IF f.i <= Len(f.list)
           THEN Call(m, [f EXCEPT !.i = f.i + 1], "loop",
                     [Frame("emitSchema") EXCEPT !.a = f.list[f.i]])
           ELSE Return(m, [NoValue EXCEPT !.code = m.code])

\* emitSchemaToDeclaration hands a declaration to modelDecl
EmitsModelDecl(m, id) ==
  /\ m.resolveds[id].isDeclaration
  /\ ~SchemaHas(m, id, "if")
  /\ ~SchemaHas(m, id, "oneOf") /\ ~SchemaHas(m, id, "anyOf")
  /\ \/ SchemaHas(m, id, "allOf")
     \/ /\ ~SchemaHas(m, id, "enum") /\ ~SchemaHas(m, id, "const")
        /\ m.resolveds[id].type = "object"

-----------------------------------------------------------------------------
(* Running a task.                                                         *)

\* one step of the frame on top of the stack
Step(m) ==
  LET f == Top(m) IN
  CASE f.fn = "resolve" -> resolve(m, f)
    [] f.fn = "resolveRawSchema" -> resolveRawSchema(m, f)
    [] f.fn = "resolveRootSchema" -> resolveRootSchema(m, f)
    [] f.fn = "resolveSchemaReferences" -> resolveSchemaReferences(m, f)
    [] f.fn = "createResolvedSchemas" -> createResolvedSchemas(m, f)
    [] f.fn = "createResolvedSchema" -> createResolvedSchema(m, f)
    [] f.fn = "getDefinitions" -> getDefinitions(m, f)
    [] f.fn = "resolveSubschema" -> resolveSubschema(m, f)
    [] f.fn = "flattenAllOfs" -> flattenAllOfs(m, f)
    [] f.fn = "modelDecl" -> modelDecl(m, f)
    [] f.fn = "addSchema" -> addSchema(m, f)
    [] f.fn = "emit" -> emit(m, f)
    [] f.fn = "emitSchema" -> emitSchema(m, f)
    [] f.fn = "emitSchemaToDeclaration" -> emitSchemaToDeclaration(m, f)
    [] f.fn = "emitSchemaToExpression" -> emitSchemaToExpression(m, f)
    [] f.fn = "unionDeclFromArray" -> unionDeclFromArray(m, f)
    [] f.fn = "unionDeclFromOneOrAnyOf" -> unionDeclFromOneOrAnyOf(m, f)
    [] f.fn = "enumDecl" -> enumDecl(m, f)
    [] f.fn = "enumExpression" -> enumExpression(m, f)
    [] f.fn = "unionExpressionFromArray" -> unionExpressionFromArray(m, f)
    [] f.fn = "unionExpressionFromOneOf" -> unionExpressionFromOneOf(m, f)
    [] f.fn = "arrayDecl" -> arrayDecl(m, f)
    [] f.fn = "scalarDecl" -> scalarDecl(m, f)
    [] f.fn = "getObjectProperties" -> getObjectProperties(m, f)

\* a task runs until it waits for a load, returns or fails: up to 2^k steps, and
\* a task that is still running after them counts as diverging
RECURSIVE RunSteps(_, _)
RunSteps(m, k) ==
  CHOOSE after \in {IF now.status # "running" THEN now
                    ELSE IF k = 0 THEN Step(now)
                    ELSE RunSteps(RunSteps(now, k - 1), k - 1) : now \in {m}} : TRUE

Run(m) ==
  CHOOSE ended \in {IF after.status = "running"
                      THEN [after EXCEPT !.status = "diverged"]
                      ELSE after : after \in {RunSteps(m, MaxStepsLog2)}} : TRUE

-----------------------------------------------------------------------------
(* The resolver and its callers.                                           *)

\* a top-level call: what was asked, and where it stands
Task(kind, url, a, rel, frame) ==
  [kind |-> kind, url |-> url, a |-> a, rel |-> rel, stack |-> <<frame>>,
   status |-> "running", ret |-> NoValue, error |-> "", loaderCalls |-> 0]

\* the state a task runs on, and the state it leaves
Machine(task) ==
  [fs |-> fs, files |-> Files(fs), rawByUrl |-> rawSchemasByUrl, resolvedByUrl |-> resolvedSchemasByUrl,
   raws |-> rawSchemas, resolveds |-> resolvedSchemas, loads |-> loads,
   parsed |-> parsed, rebound |-> rebound,
   rootSchemas |-> rootSchemas, defSchemas |-> defSchemas,
   schemaToModel |-> schemaToModel, unnamedCount |-> unnamedCount, code |-> code,
   appended |-> appended, caught |-> caught,
   stack |-> task.stack, status |-> "running", ret |-> task.ret, error |-> task.error,
   loaderCalls |-> task.loaderCalls]

TaskAfter(task, m) ==
  [task EXCEPT !.stack = m.stack, !.status = m.status, !.ret = m.ret, !.error = m.error,
               !.loaderCalls = m.loaderCalls]

Commit(m) ==
  /\ rawSchemasByUrl' = m.rawByUrl
  /\ resolvedSchemasByUrl' = m.resolvedByUrl
  /\ rawSchemas' = m.raws
  /\ resolvedSchemas' = m.resolveds
  /\ loads' = m.loads
  /\ parsed' = m.parsed
  /\ rebound' = m.rebound
  /\ rootSchemas' = m.rootSchemas
  /\ defSchemas' = m.defSchemas
  /\ schemaToModel' = m.schemaToModel
  /\ unnamedCount' = m.unnamedCount
  /\ code' = m.code
  /\ appended' = m.appended
  /\ caught' = m.caught
  /\ fs' = fs
  /\ emitters' = emitters

\* the calls waiting for a document
InFlight == {t \in 1..Len(tasks) : tasks[t].status = "loading"}

\* the schemas resolve has handed to its caller
Returned ==
  {tasks[t].ret.id : t \in {t \in 1..Len(tasks) :
      tasks[t].status = "done" /\ tasks[t].kind \in {"resolve", "resolveSubschema"}}}

\* the schemas addSchema records for emission: a root and its definitions
Emittable ==
  Returned \cup UNION {{resolvedSchemas[id].definitions[i][2] :
                          i \in 1..Len(resolvedSchemas[id].definitions)} : id \in Returned}

\* a caller starts a call; it runs until it waits for a document or ends
Start(task, inFlight) ==
  /\ Len(tasks) < MaxCalls
  /\ Cardinality(InFlight) < inFlight
  /\ \E m \in {Run(Machine(task))} :
       /\ tasks' = Append(tasks, TaskAfter(task, m))
       /\ Commit(m)

\* resolver.resolve(url)
Resolve(url, inFlight) ==
  Start(Task("resolve", url, NoObject, [abs |-> FALSE, path |-> <<>>],
             [Frame("resolve") EXCEPT !.url = url]), inFlight)

\* schema.resolveSubschema(rel) on a schema resolve returned
ResolveSubschema(id, rel, inFlight) ==
  Start(Task("resolveSubschema",
             NewUrl(Local(Relative(resolvedSchemas[id].ptr, rel)),
                    resolvedSchemas[id].retrievalUrl),
             id, rel, [Frame("resolveSubschema") EXCEPT !.a = id, !.rel = rel]), inFlight)

\* the emitter emits the model declaration of a recorded schema
EmitModelDecl(id, inFlight) ==
  /\ EmitsModelDecl(Machine(Task("modelDecl", DocUrl(""), id,
                                 [abs |-> FALSE, path |-> <<>>], Frame("modelDecl"))), id)
  /\ Start(Task("modelDecl", resolvedSchemas[id].retrievalUrl, id,
                [abs |-> FALSE, path |-> <<>>],
                [Frame("modelDecl") EXCEPT !.a = id]), inFlight)

\* emitter.addSchema(location)
AddSchema(url) ==
  Start(Task("addSchema", url, NoObject, [abs |-> FALSE, path |-> <<>>],
             [Frame("addSchema") EXCEPT !.url = url]), 1)

\* emitter.emit()
Emit ==
  Start(Task("emit", DocUrl(""), NoObject, [abs |-> FALSE, path |-> <<>>], Frame("emit")), 1)

\* faulted variant of FirstUnnamedCount: the counter is shared by the instances
FirstUnnamedCountShared(previous) == previous
\* `let unnamedCount = 0` of createCadlEmitter; previous is the counter of the
\* emitter made before
FirstUnnamedCount(previous) == 0

\* what a caller keeps of an emitter: the calls made and the text each returned
CallsMade == [t \in 1..Len(tasks) |-> <<tasks[t].kind, tasks[t].url, tasks[t].status>>]
Texts == [t \in 1..Len(tasks) |-> tasks[t].ret.code]

\* createCadlEmitter(): the caller gives up the emitter and makes a new one, with
\* a resolver of its own
NewEmitter ==
  /\ Len(emitters) < MaxEmitters - 1
  /\ tasks # <<>>
  /\ InFlight = {}
  /\ emitters' = Append(emitters, [calls |-> CallsMade, texts |-> Texts, code |-> code])
  /\ rawSchemasByUrl' = <<>>
  /\ resolvedSchemasByUrl' = <<>>
  /\ rawSchemas' = <<>>
  /\ resolvedSchemas' = <<>>
  /\ tasks' = <<>>
  /\ loads' = <<>>
  /\ parsed' = <<>>
  /\ rebound' = {}
  /\ rootSchemas' = <<>>
  /\ defSchemas' = <<>>
  /\ schemaToModel' = <<>>
  /\ unnamedCount' = FirstUnnamedCount(unnamedCount)
  /\ code' = ""
  /\ appended' = <<>>
  /\ caught' = <<>>
  /\ fs' = fs

\* the Source Loader answers the call that waits for it
LoadDone(t) ==
  /\ tasks[t].status = "loading"
  /\ \E m \in {Run(Machine(tasks[t]))} :
       /\ tasks' = [tasks EXCEPT ![t] = TaskAfter(tasks[t], m)]
       /\ Commit(m)

Init(sets) ==
  /\ fs \in sets
  /\ rawSchemasByUrl = <<>>
  /\ resolvedSchemasByUrl = <<>>
  /\ rawSchemas = <<>>
  /\ resolvedSchemas = <<>>
  /\ tasks = <<>>
  /\ loads = <<>>
  /\ parsed = <<>>
  /\ rebound = {}
  /\ rootSchemas = <<>>
  /\ defSchemas = <<>>
  /\ schemaToModel = <<>>
  /\ unnamedCount = FirstUnnamedCount(0)
  /\ code = ""
  /\ appended = <<>>
  /\ caught = <<>>
  /\ emitters = <<>>

\* Calls made one at a time: each is awaited before the next starts
Next ==
  \/ \E url \in Requests(fs) : Resolve(url, 1)
  \/ \E id \in Returned : \E rel \in RelativePointers(fs) : ResolveSubschema(id, rel, 1)
  \/ \E id \in Emittable : EmitModelDecl(id, 1)
  \/ \E t \in 1..Len(tasks) : LoadDone(t)

\* Calls that overlap: a caller may start a call while others wait for a document
NextConcurrent ==
  \/ \E url \in Requests(fs) : Resolve(url, MaxInFlight)
  \/ \E id \in Returned : \E rel \in RelativePointers(fs) :
       ResolveSubschema(id, rel, MaxInFlight)
  \/ \E id \in Emittable : EmitModelDecl(id, MaxInFlight)
  \/ \E t \in 1..Len(tasks) : LoadDone(t)

\* The callers of an emitter: addSchema and emit, each awaited before the next
NextEmitter ==
  \/ \E url \in Schemas(fs) : AddSchema(url)
  \/ Emit
  \/ NewEmitter
  \/ \E t \in 1..Len(tasks) : LoadDone(t)

\* document sets in which every canonical URL identifies one document
InitUnique == Init({"person", "prim", "allOf", "legacy"})
\* document sets with colliding identifiers
InitColliding == Init({"dup"})

Spec == InitUnique /\ [][Next]_vars
SpecConcurrent == InitUnique /\ [][NextConcurrent]_vars
SpecColliding == InitColliding /\ [][Next]_vars
SpecEmitter == Init({"person", "enums", "unnamed", "shapes"}) /\ [][NextEmitter]_vars
SpecEmitterColliding == InitColliding /\ [][NextEmitter]_vars
\* a document set in which resolving a root's definitions fails
SpecBroken == Init({"broken"}) /\ [][Next]_vars
\* a document set whose $ref chains come back to a node they left
SpecCyclic == Init({"cyclic"}) /\ [][Next]_vars

-----------------------------------------------------------------------------
(* What the properties below speak about: the calls made so far and the    *)
(* documents as written, read without the resolver.                        *)

MaxChain == 4

Done(t) == tasks[t].status = "done"
Calls == 1..Len(tasks)
ResolveCalls == {t \in Calls : tasks[t].kind \in {"resolve", "resolveSubschema"}}
Result(t) == resolvedSchemas[tasks[t].ret.id]

\* the document a URL names: a file, or the file that declares the name as its id
DeclaredId(d) ==
  LET contents == Files(fs)[d][<<>>] IN
  getId(contents, detectVersionFromContents(contents, v202012))
FileOf(name) ==
  IF name \in DOMAIN Files(fs) THEN name
  ELSE CHOOSE d \in DOMAIN Files(fs) : DeclaredId(d) = name

\* a node of a document, and the keywords written at it
Node(doc, ptr) == [doc |-> doc, ptr |-> ptr]
NodeOf(schema) == Node(schema.cdoc, schema.ptr)
Written(node) == Files(fs)[node.doc][node.ptr]

\* the node the $ref written at a node points to
TargetOf(node) ==
  LET reference == Written(node)["$ref"] IN
  Node(IF reference.doc = "" THEN node.doc ELSE FileOf(reference.doc), reference.ptr)

\* the nodes reached by following $ref from a node, nearest first
RECURSIVE HopsFrom(_, _)
HopsFrom(node, fuel) ==
  IF fuel = 0 \/ "$ref" \notin DOMAIN Written(node) THEN <<>>
  ELSE <<TargetOf(node)>> \o HopsFrom(TargetOf(node), fuel - 1)

\* the type written nearest to the front of a list of nodes
RECURSIVE NearestType(_)
NearestType(nodes) ==
  IF nodes = <<>> THEN Undefined
  ELSE IF "type" \in DOMAIN Written(nodes[1]) THEN Written(nodes[1])["type"]
  ELSE NearestType(Tail(nodes))

\* an identifying marker: a definition name, a title or an id
Marked(rawSchema) ==
  \/ rawSchema.definitionName # Undefined
  \/ "title" \in DOMAIN Written(NodeOf(rawSchema))
  \/ rawSchema.id # Undefined
\* the j-th node of a chain of RawSchemas is a declaration boundary
Boundary(refs, j) ==
  LET nodes == [i \in 1..Len(refs) |-> NodeOf(rawSchemas[refs[i]])]
      written == Written(nodes[j])
  IN /\ Marked(rawSchemas[refs[j]])
     /\ \/ NearestType(SubSeq(nodes, j, Len(nodes))) # Undefined
        \/ "oneOf" \in DOMAIN written \/ "allOf" \in DOMAIN written
        \/ "anyOf" \in DOMAIN written

-----------------------------------------------------------------------------
(* The resolver's caches.                                                  *)

\* C1: two completed resolve calls (resolve, or resolveSubschema from a node)
\* whose reference and base compute the same absolute retrieval URL return the
\* identical ResolvedSchema instance.
C1_SameUrlSameInstance ==
  \A t1 \in ResolveCalls : \A t2 \in ResolveCalls :
    (Done(t1) /\ Done(t2) /\ tasks[t1].url = tasks[t2].url)
      => tasks[t1].ret.id = tasks[t2].ret.id

\* two resolveSubschema calls from one node, one with "/properties/x" and one
\* with "0/properties/x", have both returned
C1_Witness ==
  \E t1 \in Calls : \E t2 \in Calls :
    /\ Done(t1) /\ Done(t2)
    /\ tasks[t1].kind = "resolveSubschema" /\ tasks[t2].kind = "resolveSubschema"
    /\ tasks[t1].a = tasks[t2].a
    /\ tasks[t1].rel.abs /\ ~tasks[t2].rel.abs
    /\ tasks[t1].rel.path # <<>>
    /\ tasks[t1].url = tasks[t2].url

\* the canonical URL of a document: its id resolved against its retrieval URL
CanonicalUrlOf(d) == IF DeclaredId(d) # Undefined THEN DocUrl(DeclaredId(d)) ELSE DocUrl(d)

\* a resolve of a document by its retrieval URL that has returned, and a later
\* resolve of the document's canonical URL
CanonicalAfterRetrieval(t1, t2) ==
  /\ t1 < t2 /\ Done(t1)
  /\ tasks[t1].kind = "resolve" /\ tasks[t2].kind = "resolve"
  /\ tasks[t1].url.doc \in DOMAIN Files(fs) /\ tasks[t1].url = DocUrl(tasks[t1].url.doc)
  /\ CanonicalUrlOf(tasks[t1].url.doc) # tasks[t1].url
  /\ tasks[t2].url = CanonicalUrlOf(tasks[t1].url.doc)

\* C2: once a document has been resolved by its retrieval URL, a resolve of its
\* canonical URL returns, never asks the Source Loader, and gives the instance
\* the first resolve gave.
C2_CanonicalUrlIsCached ==
  \A t1 \in Calls : \A t2 \in Calls :
    CanonicalAfterRetrieval(t1, t2)
      => /\ Done(t2)
         /\ tasks[t2].loaderCalls = 0
         /\ tasks[t2].ret.id = tasks[t1].ret.id

C2_Witness ==
  \E t1 \in Calls : \E t2 \in Calls : CanonicalAfterRetrieval(t1, t2) /\ Done(t2)

\* C3: both caches are write-once per key: no key is ever bound to another
\* object than the first one, and every RawSchema is found under its retrieval
\* URL and under its canonical URL.
C3_WriteOnce ==
  /\ rebound = {}
  /\ \A id \in 1..Len(rawSchemas) :
       /\ rawSchemas[id].retrievalUrl \in DOMAIN rawSchemasByUrl
       /\ rawSchemasByUrl[rawSchemas[id].retrievalUrl] = id
       /\ rawSchemas[id].canonicalUrl \in DOMAIN rawSchemasByUrl
       /\ rawSchemasByUrl[rawSchemas[id].canonicalUrl] = id

-----------------------------------------------------------------------------
(* What resolve says of a schema.                                          *)

\* a resolve of a root document that has returned; the document has no $ref and
\* no identifying marker (no title, no $id / id)
UnmarkedRoot(t) ==
  /\ Done(t) /\ tasks[t].kind = "resolve"
  /\ tasks[t].url.doc \in DOMAIN Files(fs) /\ tasks[t].url.ptr = <<>>
  /\ LET written == Written(Node(tasks[t].url.doc, <<>>)) IN
       /\ "$ref" \notin DOMAIN written /\ "title" \notin DOMAIN written
       /\ "$id" \notin DOMAIN written /\ "id" \notin DOMAIN written

RootFacts(t) ==
  /\ Result(t).refs = <<>>
  /\ Result(t).ptr = <<>>
  /\ Result(t).referencedSchema = NoObject
  /\ ~Result(t).isDefinition

\* C4 as stated: a root document with no $ref and no identifying marker
\* resolves to a schema with no refs, the root pointer, no referencedSchema,
\* isDefinition false and isDeclaration true.
C4_UnmarkedRootIsDeclaration ==
  \A t \in Calls : UnmarkedRoot(t) => (RootFacts(t) /\ Result(t).isDeclaration)

\* C4, amended: such a root resolves to a schema with no refs, the root
\* pointer, no referencedSchema, isDefinition false and isDeclaration false.
C4_UnmarkedRootIsNoDeclaration ==
  \A t \in Calls : UnmarkedRoot(t) => (RootFacts(t) /\ ~Result(t).isDeclaration)

\* a typed root without a marker has been resolved
C4_Witness ==
  \E t \in Calls :
    /\ UnmarkedRoot(t)
    /\ "type" \in DOMAIN Written(Node(tasks[t].url.doc, <<>>))

\* the RawSchemas of a chain, as nodes of the documents
NodesOf(refs) == [i \in 1..Len(refs) |-> NodeOf(rawSchemas[refs[i]])]

\* the declaration boundaries of a chain
Boundaries(refs) == {j \in 1..Len(refs) : Boundary(refs, j)}
NearestBoundary(refs) ==
  CHOOSE j \in Boundaries(refs) : \A k \in Boundaries(refs) : j <= k

\* C5: the refs of a schema resolve has returned are the nodes reached by
\* following $ref from it, nearest first, and its referencedSchema is the
\* ResolvedSchema of the nearest declaration boundary among them, none when
\* there is no boundary.
C5_RefsAndReferencedSchema ==
  \A id \in Emittable :
    LET schema == resolvedSchemas[id] IN
    /\ NodesOf(schema.refs) = HopsFrom(NodeOf(schema), MaxChain)
    /\ IF Boundaries(schema.refs) = {}
         THEN schema.referencedSchema = NoObject
         ELSE LET target == rawSchemas[schema.refs[NearestBoundary(schema.refs)]] IN
              /\ target.retrievalUrl \in DOMAIN resolvedSchemasByUrl
              /\ schema.referencedSchema = resolvedSchemasByUrl[target.retrievalUrl]

\* a definition one hop away from a declared definition, and a schema two hops
\* away from the end of its chain, have been returned
C5_Witness ==
  /\ \E id \in Emittable :
       LET schema == resolvedSchemas[id] IN
       /\ Len(schema.refs) = 1 /\ schema.isDefinition
       /\ schema.referencedSchema # NoObject
       /\ resolvedSchemas[schema.referencedSchema].isDefinition
  /\ \E id \in Emittable : Len(resolvedSchemas[id].refs) = 2
  /\ \E id \in Emittable :
       /\ Len(resolvedSchemas[id].refs) = 1
       /\ resolvedSchemas[id].referencedSchema = NoObject

\* C6: the type of a schema is the type written at its own node, else the
\* type written nearest along its $ref chain, else undefined.
C6_NearestTypeWins ==
  \A id \in Emittable :
    LET schema == resolvedSchemas[id] IN
    schema.type = NearestType(<<NodeOf(schema)>> \o HopsFrom(NodeOf(schema), MaxChain))

\* a schema whose own type overrides another type on its chain, and a schema
\* that takes its type from its chain, have been returned
C6_Witness ==
  /\ \E id \in Emittable :
       LET schema == resolvedSchemas[id]
           hops == HopsFrom(NodeOf(schema), MaxChain)
       IN /\ "type" \in DOMAIN Written(NodeOf(schema))
          /\ NearestType(hops) \notin {Undefined, schema.type}
  /\ \E id \in Emittable :
       LET schema == resolvedSchemas[id] IN
       /\ "type" \notin DOMAIN Written(NodeOf(schema))
       /\ schema.type # Undefined

-----------------------------------------------------------------------------
(* The Source Loader.                                                      *)

\* C7: with calls made one at a time, a document that loads is asked of the
\* Source Loader once and parsed once, whatever is resolved inside it later.
C7_LoadedOnce ==
  \A d \in DOMAIN Files(fs) :
    /\ d \in DOMAIN loads => loads[d] = 1
    /\ d \in DOMAIN parsed => parsed[d] = 1 /\ loads[d] = 1
    /\ (\E id \in 1..Len(rawSchemas) : rawSchemas[id].cdoc = d) => d \in DOMAIN parsed

\* three calls into one document have returned, two of them for different
\* fragments of it
C7_Witness ==
  \E t1 \in ResolveCalls : \E t2 \in ResolveCalls : \E t3 \in ResolveCalls :
    /\ t1 < t2 /\ t2 < t3 /\ Done(t1) /\ Done(t2) /\ Done(t3)
    /\ tasks[t1].url.doc \in DOMAIN parsed
    /\ tasks[t2].url.doc = tasks[t1].url.doc /\ tasks[t3].url.doc = tasks[t1].url.doc
    /\ tasks[t2].url.ptr # <<>> /\ tasks[t3].url.ptr # <<>>
    /\ tasks[t2].url.ptr # tasks[t3].url.ptr

\* the document a waiting call has asked the Source Loader for
WaitsFor(t) == tasks[t].stack[Len(tasks[t].stack)].url.doc

\* C8: two resolve calls for the same uncached URL that are in flight at the
\* same time share one load: the Source Loader has been asked once for the
\* document both wait for.
C8_SharedLoad ==
  \A t1 \in InFlight : \A t2 \in InFlight :
    (/\ t1 # t2
     /\ tasks[t1].kind = "resolve" /\ tasks[t2].kind = "resolve"
     /\ tasks[t1].url = tasks[t2].url
     /\ WaitsFor(t1) = WaitsFor(t2))
      => loads[WaitsFor(t1)] = 1

-----------------------------------------------------------------------------
(* allOf in a model declaration.                                           *)

ModelDecls == {t \in Calls : tasks[t].kind = "modelDecl" /\ Done(t)}
Elements(list) == {list[i] : i \in 1..Len(list)}

\* the i-th allOf branch of a node (from 0)
BranchOf(node, i) == Node(node.doc, node.ptr \o <<"allOf", ToString(i)>>)

\* a node written as { $ref } alone, to an object declaration of the definitions
\* that has no $ref and no `required`
RefToObjectDeclaration(node) ==
  /\ DOMAIN Written(node) = {"$ref"}
  /\ LET target == TargetOf(node) IN
       /\ Len(target.ptr) = 2 /\ target.ptr[1] = "$defs"
       /\ "type" \in DOMAIN Written(target) /\ Written(target)["type"] = "object"
       /\ "$ref" \notin DOMAIN Written(target)
       /\ "required" \notin DOMAIN Written(target)
       /\ "allOf" \notin DOMAIN Written(target)

PropertiesOf(node) ==
  IF "properties" \in DOMAIN Written(node) THEN Elements(Written(node)["properties"]) ELSE {}

\* an object schema whose allOf is two $ref branches to property-disjoint object
\* declarations, with `required` nowhere
TwoDisjointRefs(node) ==
  LET written == Written(node) IN
  /\ "type" \in DOMAIN written /\ written["type"] = "object"
  /\ "$ref" \notin DOMAIN written /\ "required" \notin DOMAIN written
  /\ "allOf" \in DOMAIN written /\ written["allOf"] = 2
  /\ RefToObjectDeclaration(BranchOf(node, 0))
  /\ RefToObjectDeclaration(BranchOf(node, 1))
  /\ PropertiesOf(TargetOf(BranchOf(node, 0)))
       \cap PropertiesOf(TargetOf(BranchOf(node, 1))) = {}

\* the node a modelDecl call was made for
Emitted(t) == NodeOf(resolvedSchemas[tasks[t].a])

\* C9 as stated: for such a schema flattenAllOfs gives exactly two references,
\* emitted as spreads, and no schema to flatten inline.
C9_TwoReferencesNoSchemas ==
  \A t \in ModelDecls :
    TwoDisjointRefs(Emitted(t))
      => /\ Len(tasks[t].ret.list) = 2
         /\ tasks[t].ret.spreads = tasks[t].ret.list
         /\ tasks[t].ret.list2 = <<>>

\* C9, amended: for such a schema flattenAllOfs gives exactly two references,
\* the two declarations, both emitted as spreads; the schemas to flatten inline
\* are the schema itself and its two $ref branches, never a declaration
\* referred to.
C9_TwoReferencesOwnSchemas ==
  \A t \in ModelDecls :
    TwoDisjointRefs(Emitted(t))
      => LET node == Emitted(t)
             references == tasks[t].ret.list
             schemas == tasks[t].ret.list2
         IN /\ Len(references) = 2
            /\ \A i \in 1..2 :
                 NodeOf(resolvedSchemas[references[i]]) = TargetOf(BranchOf(node, i - 1))
            /\ tasks[t].ret.spreads = references
            /\ tasks[t].ret.flattens = schemas
            /\ [i \in 1..Len(schemas) |-> NodeOf(resolvedSchemas[schemas[i]])]
                 = <<node, BranchOf(node, 0), BranchOf(node, 1)>>
            /\ Elements(references) \cap Elements(schemas) = {}

\* the model declaration of such a schema has been emitted, once for a schema
\* with properties of its own and once for one without
C9_Witness ==
  /\ \E t \in ModelDecls :
       TwoDisjointRefs(Emitted(t)) /\ PropertiesOf(Emitted(t)) # {}
  /\ \E t \in ModelDecls :
       TwoDisjointRefs(Emitted(t)) /\ PropertiesOf(Emitted(t)) = {}

\* the nodes whose keywords a ResolvedSchema answers for: its own node and the
\* nodes of its $ref chain before the nearest declaration boundary
OwnLayers(schema) ==
  LET last == IF Boundaries(schema.refs) = {} THEN Len(schema.refs)
              ELSE NearestBoundary(schema.refs) - 1
  IN <<NodeOf(schema)>> \o SubSeq(NodesOf(schema.refs), 1, last)

Declared(schema, key) ==
  \E i \in 1..Len(OwnLayers(schema)) : key \in DOMAIN Written(OwnLayers(schema)[i])

AllOfCount(schema) ==
  IF "allOf" \in DOMAIN Written(NodeOf(schema)) THEN Written(NodeOf(schema))["allOf"] ELSE 0

\* the URL of the i-th allOf branch of a schema (from 0)
BranchUrl(schema, i) ==
  FragUrl(schema.retrievalUrl.doc, schema.ptr \o <<"allOf", ToString(i)>>)

\* `required` is declared by the schema or by an allOf branch nested in it, at
\* any depth; the declarations referred to are not asked
RECURSIVE RequiredInComposition(_, _)
RequiredInComposition(id, fuel) ==
  LET schema == resolvedSchemas[id] IN
  \/ Declared(schema, "required")
  \/ /\ fuel > 0
     /\ \E i \in 0..(AllOfCount(schema) - 1) :
          /\ BranchUrl(schema, i) \in DOMAIN resolvedSchemasByUrl
          /\ RequiredInComposition(resolvedSchemasByUrl[BranchUrl(schema, i)], fuel - 1)

\* a declaration the composition refers to declares `required`
RequiredInReference(t) ==
  \E r \in Elements(tasks[t].ret.list) : Declared(resolvedSchemas[r], "required")

\* every reference is flattened: nothing is spread, and the properties of every
\* reference are emitted inline
FlattensEveryReference(t) ==
  /\ tasks[t].ret.spreads = <<>>
  /\ Elements(tasks[t].ret.list) \subseteq Elements(tasks[t].ret.flattens)

\* C10 as stated: `required` declared by any schema of an allOf composition
\* (the schema itself, a nested branch at any depth, or a declaration referred
\* to) makes the model declaration flatten every reference.
C10_AnyRequiredFlattens ==
  \A t \in ModelDecls :
    (RequiredInComposition(tasks[t].a, MaxChain) \/ RequiredInReference(t))
      => FlattensEveryReference(t)

\* C10, amended: `required` declared by the schema itself or by a nested allOf
\* branch at any depth makes the model declaration flatten every reference;
\* without it no reference is flattened, whatever the declarations referred to
\* declare.
C10_OwnRequiredFlattens ==
  \A t \in ModelDecls :
    IF RequiredInComposition(tasks[t].a, MaxChain)
      THEN FlattensEveryReference(t)
      ELSE Elements(tasks[t].ret.list) \cap Elements(tasks[t].ret.flattens) = {}

\* a model declaration with references has been emitted whose `required` is in
\* a nested branch only, and one whose `required` is only in a declaration it
\* refers to
C10_Witness ==
  /\ \E t \in ModelDecls :
       /\ RequiredInComposition(tasks[t].a, MaxChain)
       /\ "required" \notin DOMAIN Written(Emitted(t))
       /\ tasks[t].ret.list # <<>>
  /\ \E t \in ModelDecls :
       /\ ~RequiredInComposition(tasks[t].a, MaxChain)
       /\ RequiredInReference(t)

-----------------------------------------------------------------------------
(* The emitter: what the properties below speak about.                     *)

\* the calls of the emitter at hand that ended, and its emit calls
Emits == {t \in Calls : tasks[t].kind = "emit" /\ tasks[t].status \in {"done", "failed"}}
AddSchemas == {t \in Calls : tasks[t].kind = "addSchema" /\ Done(t)}
\* no call of the emitter is under way
Idle == \A t \in Calls : tasks[t].status \in {"done", "failed"}

\* C11: two emitter instances that were given the same sequence of addSchema and
\* emit calls over the same documents hold the same text and returned the same
\* text from every call, the numbers of the unnamed declarations included.
C11_SameCallsSameText ==
  \A e \in 1..Len(emitters) :
    (Idle /\ emitters[e].calls = CallsMade)
      => /\ emitters[e].code = code
         /\ emitters[e].texts = Texts

\* Both instances were given addSchema calls and an emit, and numbered two
\* unnamed declarations.
C11_Witness ==
  \E e \in 1..Len(emitters) :
    /\ Idle /\ emitters[e].calls = CallsMade
    /\ Emits # {} /\ Cardinality(AddSchemas) >= 2
    /\ unnamedCount = 2
    /\ code # ""

\* the schemas addSchema recorded, and the texts appended for one of them
Recorded == Elements(rootSchemas) \cup Elements(defSchemas)
TextsOf(d) == {appended[k].text : k \in {k \in 1..Len(appended) : appended[k].schema = d}}
\* the last call was an emit, and it returned
Emitted0 == tasks # <<>> /\ tasks[Len(tasks)].kind = "emit" /\ Done(Len(tasks))
\* the keywords written at the node of a recorded schema
WrittenAt(d) == Written(NodeOf(resolvedSchemas[d]))
\* a recorded declaration that the dispatch hands to enumDecl for its `const`
ConstDeclaration(d) ==
  /\ resolvedSchemas[d].isDeclaration
  /\ "const" \in DOMAIN WrittenAt(d)
  /\ \A key \in {"if", "oneOf", "anyOf", "allOf", "enum", "$ref"} : key \notin DOMAIN WrittenAt(d)
\* an enum or a union of literals with exactly one member, the serialization of c
OneMember(name, c) ==
  {"enum " \o name \o " {\n      member0: " \o Stringify(c) \o ";\n    }",
   "union " \o name \o " {\n      variant0: " \o Stringify(c) \o ";\n    }"}

\* C12: once emit has returned, every recorded declaration with a `const` c has
\* been emitted as an enum or a union of literals with exactly one member, the
\* JSON serialization of c, whatever the value c is (0, false and "" included).
C12_ConstIsOneMember ==
  Emitted0 =>
    \A d \in Recorded :
      ConstDeclaration(d) =>
        TextsOf(d) \cap OneMember(resolvedSchemas[d].definitionName, WrittenAt(d)["const"]) # {}

\* the same for the constants JavaScript takes for true only (this one holds)
TruthyConstIsOneMember ==
  Emitted0 =>
    \A d \in Recorded :
      (ConstDeclaration(d) /\ Truthy(WrittenAt(d)["const"])) =>
        TextsOf(d) \cap OneMember(resolvedSchemas[d].definitionName, WrittenAt(d)["const"]) # {}

\* the type JSON Schema gives a value of `enum`
TypeOfValue(v) ==
  CASE "string" \in DOMAIN v -> "string"
    [] "number" \in DOMAIN v -> "number"
    [] "boolean" \in DOMAIN v -> "boolean"
\* a text that is an `enum` declaration
IsEnumText(text) == Len(text) >= 5 /\ SubSeq(text, 1, 5) = "enum "
\* a declaration that the dispatch hands to enumDecl for its `enum`
EnumDeclaration(d) ==
  /\ resolvedSchemas[d].isDeclaration
  /\ "enum" \in DOMAIN WrittenAt(d)
  /\ \A key \in {"if", "oneOf", "anyOf", "allOf", "const", "$ref"} : key \notin DOMAIN WrittenAt(d)
\* every member of the enumeration is of the type
MembersOfType(d, type) ==
  \A i \in 1..Len(WrittenAt(d)["enum"]) : TypeOfValue(WrittenAt(d)["enum"][i]) = type

\* C13: the text appended for an enumeration is an `enum` declaration only when the
\* type of the schema is string or number and every member is of that type; an
\* enumeration of mixed members is a union of literals whatever its type says.
C13_EnumOnlyForOneLiteralType ==
  \A k \in 1..Len(appended) :
    LET d == appended[k].schema IN
    (EnumDeclaration(d) /\ IsEnumText(appended[k].text))
      => /\ resolvedSchemas[d].type \in {"string", "number"}
         /\ MembersOfType(d, resolvedSchemas[d].type)

\* the part of C13 that holds: an `enum` declaration only for type string or number
EnumOnlyForStringOrNumber ==
  \A k \in 1..Len(appended) :
    LET d == appended[k].schema IN
    (EnumDeclaration(d) /\ IsEnumText(appended[k].text))
      => resolvedSchemas[d].type \in {"string", "number"}

\* C14: the text of a declaration is appended at most once per ResolvedSchema,
\* over all addSchema and emit calls of an emitter, for every kind of declaration,
\* the alias of a schema with `if` included.
C14_AppendedOnce ==
  \A j, k \in 1..Len(appended) :
    appended[j].schema = appended[k].schema => j = k

\* the same for the declarations createCadlDecl registers (this one holds)
AppendedOnceUnlessIf ==
  \A j, k \in 1..Len(appended) :
    (appended[j].schema = appended[k].schema /\ "if" \notin DOMAIN WrittenAt(appended[j].schema))
      => j = k

\* text holds part
Contains(text, part) ==
  \E i \in 1..(Len(text) - Len(part) + 1) : SubSeq(text, i, i + Len(part) - 1) = part
\* the top type with the comment of the catch block
Placeholder == "unknown /* error encountered emitting this type */"
\* the schemas whose emission threw
Failed == {caught[k].schema : k \in 1..Len(caught)}

\* C15: a failure while one declaration is emitted is caught: no emit call is
\* rejected, the caller that awaited the failed emission has the top-type
\* placeholder in its text, and once emit has returned the text of every recorded
\* declaration that did not fail itself has been appended.
C15_FailureIsCaught ==
  /\ \A t \in Emits : Done(t)
  /\ \A k \in 1..Len(caught) :
       \A text \in TextsOf(caught[k].into) : Contains(text, Placeholder)
  /\ Emitted0 => \A d \in Recorded \ Failed : TextsOf(d) # {}

\* emit has returned after a failure in a recorded declaration and a failure in a
\* declaration another one refers to, and other declarations were appended
C15_Witness ==
  /\ Emitted0
  /\ \E k \in 1..Len(caught) : caught[k].into = NoObject
  /\ \E k \in 1..Len(caught) : caught[k].into # NoObject /\ TextsOf(caught[k].into) # {}
  /\ Recorded \ Failed # {}

\* the error emitSchemaToDeclaration throws for a declaration without a type
NoType == "Couldn't find type for schema"
\* a recorded declaration with no type and none of the keywords the dispatch of
\* emitSchemaToDeclaration looks for
Shapeless(d) ==
  /\ resolvedSchemas[d].isDeclaration
  /\ resolvedSchemas[d].type \in {Undefined, ""}
  /\ \A i \in 1..Len(resolvedSchemas[d].refset) :
       \A key \in {"if", "oneOf", "anyOf", "allOf", "enum", "const"} :
         key \notin DOMAIN Written(NodeOf(rawSchemas[resolvedSchemas[d].refset[i]]))

\* C16 as stated: the error of a declaration without a type is fatal, that is, no
\* emitSchema catches it and the emit call that met it is rejected.
C16_NoTypeIsFatal ==
  /\ \A k \in 1..Len(caught) : caught[k].error # NoType
  /\ Emitted0 => \A d \in Recorded : ~Shapeless(d)

\* C16 as the emitter behaves: the error of a declaration without a type is caught
\* by emitSchema like any other; the emit call returns, and nothing is appended
\* for the declaration.
C16_NoTypeIsCaught ==
  /\ \A t \in Emits : Done(t)
  /\ Emitted0 => \A d \in Recorded : Shapeless(d) => (d \in Failed /\ TextsOf(d) = {})
  /\ \A k \in 1..Len(caught) :
       caught[k].error = NoType => Shapeless(caught[k].schema)

\* emit has returned although a recorded declaration had no type
C16_Witness ==
  /\ Emitted0
  /\ \E d \in Recorded : Shapeless(d)
  /\ \E k \in 1..Len(caught) : caught[k].error = NoType

\* the object resolve returned to the addSchema call t
RootOf(t) == resolvedSchemasByUrl[tasks[t].url]
\* the keys of the definitions container of the document a schema was read from
ContainerKeys(d) ==
  LET root == Files(fs)[resolvedSchemas[d].cdoc][<<>>] IN
  IF "$defs" \in DOMAIN root THEN root["$defs"]
  ELSE IF "definitions" \in DOMAIN root THEN root["definitions"] ELSE <<>>
\* the addSchema calls that named the document of a recorded schema
CallsOf(d) == {t \in AddSchemas : tasks[t].url.doc = resolvedSchemas[d].cdoc}
\* the first of them, and the place of the schema in its document: 0 for the root,
\* k for the k-th key of the definitions container
CallOf(d) == CHOOSE t \in CallsOf(d) : \A u \in CallsOf(d) : t <= u
PlaceOf(d) ==
  IF resolvedSchemas[d].isRoot THEN 0
  ELSE CHOOSE k \in 1..Len(ContainerKeys(d)) :
         ContainerKeys(d)[k] = resolvedSchemas[d].definitionName
\* x is requested before y: by an earlier addSchema call, or by the same call and
\* x is the root or an earlier definition
RequestedBefore(x, y) ==
  \/ CallOf(x) < CallOf(y)
  \/ CallOf(x) = CallOf(y) /\ PlaceOf(x) < PlaceOf(y)
\* the roots and the definitions the first n calls recorded, as addSchema pushes them
RECURSIVE RecordedRoots(_)
RecordedRoots(n) ==
  IF n = 0 THEN <<>>
  ELSE IF n \in AddSchemas /\ resolvedSchemas[RootOf(n)].isDeclaration
    THEN Append(RecordedRoots(n - 1), RootOf(n))
    ELSE RecordedRoots(n - 1)
DeclaredDefinitions(root) ==
  SelectSeq([k \in 1..Len(resolvedSchemas[root].definitions) |->
               resolvedSchemas[root].definitions[k][2]],
            LAMBDA def : resolvedSchemas[def].isDeclaration)
RECURSIVE RecordedDefs(_)
RecordedDefs(n) ==
  IF n = 0 THEN <<>>
  ELSE IF n \in AddSchemas
    THEN RecordedDefs(n - 1) \o DeclaredDefinitions(RootOf(n))
    ELSE RecordedDefs(n - 1)
\* the emitter at hand made one emit call, its last call, and the call returned
OneEmit == Emitted0 /\ Cardinality(Emits) = 1

\* C17 as stated: in the output of emit the declarations recorded by addSchema stand
\* in the order they were requested: a root before its definitions and before
\* everything of a later addSchema call, definitions in the key order of their
\* container.
C17_RequestOrder ==
  OneEmit =>
    \A i, j \in 1..Len(appended) :
      LET x == appended[i].schema
          y == appended[j].schema
      IN (i < j /\ x \in Recorded /\ y \in Recorded /\ x # y) => RequestedBefore(x, y)

\* C17 as the emitter behaves: emit walks the recorded roots of all addSchema calls
\* in call order and then the recorded definitions of all calls in call order and
\* key order, and the text of a declaration is appended when its emission ends,
\* that is after the texts of the declarations it refers to that were not emitted
\* before.
C17_RootsThenDefinitions ==
  OneEmit =>
    LET all == rootSchemas \o defSchemas
        n == Len(appended)
    IN /\ rootSchemas = RecordedRoots(Len(tasks))
       /\ defSchemas = RecordedDefs(Len(tasks))
       /\ \A r \in Elements(rootSchemas) :
            [k \in 1..Len(resolvedSchemas[r].definitions) |->
               resolvedSchemas[r].definitions[k][1]] = ContainerKeys(r)
       /\ \A k \in 1..n : appended[k].at \in 1..Len(all)
       /\ \A i, j \in 1..n : i < j => appended[i].at <= appended[j].at
       /\ \A i, j \in 1..n :
            (i < j /\ appended[i].at = appended[j].at)
              => appended[i].schema # all[appended[i].at]
       /\ \A k \in 1..n :
            (k = n \/ appended[k + 1].at # appended[k].at)
              => \/ appended[k].schema = all[appended[k].at]
                 \/ all[appended[k].at] \in Failed

\* emit returned after two addSchema calls; the root of the second call stands
\* before a definition of the first, and a declaration that a root refers to
\* stands before that root
C17_Witness ==
  /\ OneEmit
  /\ Cardinality(AddSchemas) >= 2
  /\ \E i, j \in 1..Len(appended) :
       /\ i < j
       /\ resolvedSchemas[appended[i].schema].isRoot
       /\ appended[j].schema \in Elements(defSchemas)
       /\ CallOf(appended[j].schema) < CallOf(appended[i].schema)
  /\ \E i, j \in 1..Len(appended) :
       /\ i < j /\ appended[i].at = appended[j].at
       /\ appended[j].schema \in Elements(rootSchemas)
       /\ appended[i].schema # appended[j].schema

-----------------------------------------------------------------------------
(* Declaration boundaries.                                                 *)

\* oneOf, allOf or anyOf is written at the node of a schema
Composes(schema) ==
  \E key \in {"oneOf", "allOf", "anyOf"} : key \in DOMAIN Written(NodeOf(schema))
\* the nodes a schema stands for: its own and those that were folded into it, which
\* are the nodes of its chain in front of the nearest declaration boundary
FoldedNodes(schema) ==
  {NodeOf(schema)}
    \cup {NodesOf(schema.refs)[j] :
            j \in {j \in 1..Len(schema.refs) :
                     \A k \in Boundaries(schema.refs) : j < k}}
LayersOf(schema) ==
  {NodeOf(rawSchemas[schema.refset[i]]) : i \in 1..Len(schema.refset)}

\* C18 as stated: a schema is a declaration exactly when it has a marker and shape
\* information of its own, a type written at its node or oneOf / allOf / anyOf.
C18_BoundaryByOwnShape ==
  \A id \in Emittable :
    LET schema == resolvedSchemas[id] IN
    schema.isDeclaration
      <=> /\ Marked(schema)
          /\ "type" \in DOMAIN Written(NodeOf(schema)) \/ Composes(schema)

\* C18 as the resolver behaves: a schema is a declaration exactly when it has a
\* marker and either a type in scope, written at its node or further along its
\* $ref chain, or oneOf / allOf / anyOf of its own; the nodes of its chain in front
\* of the nearest boundary, and no others, are folded into its RefSet.
C18_BoundaryByTypeInScope ==
  \A id \in Emittable :
    LET schema == resolvedSchemas[id]
        chain == <<NodeOf(schema)>> \o HopsFrom(NodeOf(schema), MaxChain)
    IN /\ schema.isDeclaration
            <=> /\ Marked(schema)
                /\ NearestType(chain) # Undefined \/ Composes(schema)
       /\ LayersOf(schema) = FoldedNodes(schema)

\* resolve has returned a definition that is a declaration by the type of the
\* definition it refers to, a definition whose chain holds no type and that is no
\* declaration, and a schema with two layers
C18_Witness ==
  /\ \E id \in Emittable :
       LET schema == resolvedSchemas[id] IN
       /\ Marked(schema) /\ schema.isDeclaration /\ ~Composes(schema)
       /\ "type" \notin DOMAIN Written(NodeOf(schema))
       /\ schema.refs # <<>>
  /\ \E id \in Emittable :
       LET schema == resolvedSchemas[id] IN
       /\ Marked(schema) /\ ~schema.isDeclaration
       /\ schema.refs # <<>> /\ Cardinality(LayersOf(schema)) = 2

-----------------------------------------------------------------------------
(* Definition names.                                                       *)

\* the root RawSchema of the document a RawSchema was read from
RootOfRaw(rawSchema) == rawSchemas[rawSchemasByUrl[DocUrl(rawSchema.cdoc)]]
\* the pointer of a RawSchema names a member of the definitions container that
\* getDefinitions reads for the draft of its document
InContainerOfDraft(rawSchema) ==
  /\ Len(rawSchema.ptr) = 2
  /\ rawSchema.ptr[1] = DefKey(RootOfRaw(rawSchema).version)
\* the pointer of a RawSchema has two segments and the first is $defs, or it is
\* definitions and the draft is older than 2019-09
InSomeContainer(rawSchema) ==
  /\ Len(rawSchema.ptr) = 2
  /\ \/ rawSchema.ptr[1] = "$defs"
     \/ rawSchema.ptr[1] = "definitions" /\ RootOfRaw(rawSchema).version < v201909

\* C19: a fragment node has a definitionName, its second pointer segment, and
\* isDefinition true exactly when its pointer has two segments of which the first
\* is the definitions container key of the detected draft; otherwise its
\* definitionName is undefined and isDefinition is false.
C19_DefinitionNameByDraft ==
  \A id \in 1..Len(rawSchemas) :
    LET rawSchema == rawSchemas[id] IN
    ~rawSchema.isRoot =>
      /\ rawSchema.definitionName
           = (IF InContainerOfDraft(rawSchema) THEN rawSchema.ptr[2] ELSE Undefined)
      /\ rawSchema.isDefinition = InContainerOfDraft(rawSchema)

\* what holds instead: $defs names a definition in every draft
DefinitionNameByEitherKey ==
  \A id \in 1..Len(rawSchemas) :
    LET rawSchema == rawSchemas[id] IN
    ~rawSchema.isRoot =>
      /\ rawSchema.definitionName
           = (IF InSomeContainer(rawSchema) THEN rawSchema.ptr[2] ELSE Undefined)
      /\ rawSchema.isDefinition = InSomeContainer(rawSchema)

-----------------------------------------------------------------------------
(* RefSet.get over several layers.                                         *)

\* the layers of a recorded schema that own a key, in the order of refset.schemas
\* (the schema's own node is the last layer)
LayersWith(d, key) ==
  SelectSeq(resolvedSchemas[d].refset,
            LAMBDA id : key \in DOMAIN Written(NodeOf(rawSchemas[id])))
\* the text of a declaration shows the maxLength that schema.get gave
ShowsMaxLength(text, value) == Contains(text, "@maxLength(" \o ToString(value) \o ")")
\* a declaration was appended whose own node and a node folded into it both have
\* maxLength
TwoLayers(k) ==
  /\ Len(LayersWith(appended[k].schema, "maxLength")) >= 2
  /\ "maxLength" \in DOMAIN WrittenAt(appended[k].schema)
  /\ Contains(appended[k].text, "@maxLength(")

\* C20: when several layers of a schema's RefSet own a key, get(key) without a
\* policy gives the value of the nearest layer, the schema's own node: the
\* decorator emitted from schema.get("maxLength") shows the node's own value.
C20_NearestLayerWins ==
  \A k \in 1..Len(appended) :
    TwoLayers(k)
      => ShowsMaxLength(appended[k].text, WrittenAt(appended[k].schema)["maxLength"])

\* what holds instead: get gives the value of the first layer of refset.schemas,
\* the node farthest along the $ref chain
FirstLayerWins ==
  \A k \in 1..Len(appended) :
    TwoLayers(k)
      => ShowsMaxLength(appended[k].text,
           Written(NodeOf(rawSchemas[LayersWith(appended[k].schema, "maxLength")[1]]))
             ["maxLength"])

-----------------------------------------------------------------------------
(* The emitter: models, properties and unions.                             *)

\* the nodes folded into a recorded schema, its own node included
LayerNodes(d) ==
  {NodeOf(rawSchemas[resolvedSchemas[d].refset[i]]) :
     i \in 1..Len(resolvedSchemas[d].refset)}
\* a key is written at some layer of a recorded schema
SomeLayerHas(d, key) == \E node \in LayerNodes(d) : key \in DOMAIN Written(node)
\* a recorded declaration that the dispatch of emitSchemaToDeclaration hands to
\* modelDecl for its type
ObjectModel(d) ==
  /\ resolvedSchemas[d].isDeclaration
  /\ resolvedSchemas[d].type = "object"
  /\ \A key \in {"if", "oneOf", "anyOf", "allOf", "enum", "const"} : ~SomeLayerHas(d, key)
\* the property names written at the layers of a recorded schema
PropertyNamesAt(node) ==
  IF "properties" \in DOMAIN Written(node)
    THEN Elements(Written(node)["properties"]) ELSE {}
LayerProperties(d) == UNION {PropertyNamesAt(node) : node \in LayerNodes(d)}
\* the text of a model holds a property of this name
HasProperty(text, name) == Contains(text, " \"" \o PropertyName(name) \o "\"")

\* C21: the model emitted for an object schema holds a property for every name in
\* the `properties` of every layer, the node's own and those folded in through
\* $ref, and its emission does not fail for a property of another layer.
C21_PropertiesOfEveryLayer ==
  Emitted0 =>
    \A d \in Recorded :
      ObjectModel(d)
        => /\ d \notin Failed
           /\ \A name \in LayerProperties(d) :
                \E text \in TextsOf(d) : HasProperty(text, name)

\* what holds instead: the properties are emitted when the node itself is the only
\* layer that has `properties`
OwnPropertiesEmitted ==
  Emitted0 =>
    \A d \in Recorded :
      (ObjectModel(d) /\ LayerProperties(d) = PropertyNamesAt(NodeOf(resolvedSchemas[d])))
        => /\ d \notin Failed
           /\ \A name \in LayerProperties(d) :
                \E text \in TextsOf(d) : HasProperty(text, name)

\* the names in the `required` lists of the layers of a recorded schema
RequiredNamesAt(node) ==
  IF "required" \in DOMAIN Written(node) THEN Elements(Written(node)["required"]) ELSE {}
LayerRequired(d) == UNION {RequiredNamesAt(node) : node \in LayerNodes(d)}
\* a property of this name stands in the text, and it stands there without `?`
Label(name) == " \"" \o PropertyName(name) \o "\""
RequiredIn(text, name) == Contains(text, Label(name) \o ": ")
OptionalIn(text, name) == Contains(text, Label(name) \o "?: ")
\* in the texts of a model, the property of this name is non-optional exactly when
\* a layer lists it as required
RequiredAsListed(d, name) ==
  \A text \in TextsOf(d) :
    /\ RequiredIn(text, name) <=> name \in LayerRequired(d)
    /\ OptionalIn(text, name) <=> name \notin LayerRequired(d)

\* C22: in an emitted model a property is non-optional exactly when its name is in
\* the `required` list of a layer, whatever the name, "model" included.
C22_RequiredIffListed ==
  Emitted0 =>
    \A d \in Recorded :
      (ObjectModel(d) /\ d \notin Failed)
        => \A name \in LayerProperties(d) : RequiredAsListed(d, name)

\* what holds instead: the same for every property name but "model"
RequiredIffListedUnlessModel ==
  Emitted0 =>
    \A d \in Recorded :
      (ObjectModel(d) /\ d \notin Failed)
        => \A name \in LayerProperties(d) \ {"model"} : RequiredAsListed(d, name)

\* a recorded declaration that the dispatch of emitSchemaToDeclaration hands to
\* unionDeclFromOneOrAnyOf, the keyword it reads and the number of its branches
UnionOfBranches(d) ==
  /\ resolvedSchemas[d].isDeclaration
  /\ ~SomeLayerHas(d, "if")
  /\ SomeLayerHas(d, "oneOf") \/ SomeLayerHas(d, "anyOf")
BranchKeyword(d) == IF SomeLayerHas(d, "oneOf") THEN "oneOf" ELSE "anyOf"
BranchCount(d) ==
  LET node == CHOOSE n \in LayerNodes(d) : BranchKeyword(d) \in DOMAIN Written(n)
  IN Written(node)[BranchKeyword(d)]
\* the name of the variant of branch i: the branch's title, else variant<i>
BranchNode(d, i) ==
  Node(resolvedSchemas[d].cdoc,
       resolvedSchemas[d].ptr \o <<BranchKeyword(d), ToString(i)>>)
VariantName(d, i) ==
  IF "title" \in DOMAIN Written(BranchNode(d, i))
    THEN Written(BranchNode(d, i))["title"]
    ELSE "variant" \o ToString(i)

\* C23: the union declaration emitted for a schema with oneOf or anyOf has a variant
\* for every branch of the keyword, named by the branch's title or variant<N>.
C23_OneVariantPerBranch ==
  Emitted0 =>
    \A d \in Recorded :
      UnionOfBranches(d)
        => /\ TextsOf(d) # {}
           /\ \A text \in TextsOf(d) :
                \A i \in 0..(BranchCount(d) - 1) :
                  Contains(text, VariantName(d, i) \o ": ")

\* what holds instead: the union declaration is emitted without any variant
UnionWithoutVariants ==
  Emitted0 =>
    \A d \in Recorded :
      UnionOfBranches(d)
        => /\ TextsOf(d) # {}
           /\ \A text \in TextsOf(d) : ~Contains(text, ": ")

-----------------------------------------------------------------------------
(* The resolver: what a returned schema keeps.                             *)

\* the fields of a ResolvedSchema a caller reads, its chain and its layers by the
\* nodes they were built from
Fields(schemas, raws, id) ==
  [isDeclaration |-> schemas[id].isDeclaration,
   type |-> schemas[id].type,
   referencedSchema |-> schemas[id].referencedSchema,
   refs |-> [i \in 1..Len(schemas[id].refs) |-> NodeOf(raws[schemas[id].refs[i]])],
   refset |-> [i \in 1..Len(schemas[id].refset) |-> NodeOf(raws[schemas[id].refset[i]])],
   definitions |-> schemas[id].definitions]
\* the cache keys under which a schema is found
KeysOf(cache, id) == {key \in DOMAIN cache : cache[key] = id}

\* C24: once resolve has returned a schema, no step of the resolver changes its
\* isDeclaration, type, referencedSchema, the nodes of its refs, the layers of its
\* refset or its definitions, and the cache keeps it under every key it had.
C24_ReturnedIsFrozen ==
  [][\A id \in Returned :
       /\ Fields(resolvedSchemas', rawSchemas', id) = Fields(resolvedSchemas, rawSchemas, id)
       /\ KeysOf(resolvedSchemasByUrl, id) # {}
       /\ KeysOf(resolvedSchemasByUrl, id) \subseteq KeysOf(resolvedSchemasByUrl', id)]_vars

-----------------------------------------------------------------------------
(* The resolver under overlapping calls.                                   *)

\* two calls of resolve for one URL that both asked the Source Loader: neither found
\* the document when it started, so they overlapped
BothLoaded(t1, t2) ==
  /\ t1 # t2
  /\ tasks[t1].kind = "resolve" /\ tasks[t2].kind = "resolve"
  /\ tasks[t1].url = tasks[t2].url
  /\ tasks[t1].loaderCalls > 0 /\ tasks[t2].loaderCalls > 0
  /\ Done(t1) /\ Done(t2)

\* C25: two overlapping calls of resolve for the same uncached URL return the same
\* ResolvedSchema object even when both load the document, and no key of the
\* resolved-schema cache is ever bound to a second object.
C25_OverlappingCallsOneInstance ==
  /\ \A t1, t2 \in Calls : BothLoaded(t1, t2) => tasks[t1].ret.id = tasks[t2].ret.id
  /\ \A entry \in rebound : entry[1] # "resolvedSchemasByUrl"

C25_Witness ==
  \E t1, t2 \in Calls :
    /\ BothLoaded(t1, t2)
    /\ tasks[t1].ret.id # NoObject
    /\ loads[tasks[t1].url.doc] > 1

\* the names of the definitions a root's document lists in the container of its draft
ListedDefinitions(schema) ==
  IF DefKey(schema.version) \in DOMAIN Written(NodeOf(schema))
    THEN Written(NodeOf(schema))[DefKey(schema.version)]
    ELSE <<>>
\* a schema is fully built: a definition for every listed name, the type and the
\* chain its document gives it
FullyBuilt(id) ==
  LET schema == resolvedSchemas[id]
      hops == HopsFrom(NodeOf(schema), MaxChain)
  IN /\ schema.isRoot
          => [i \in 1..Len(schema.definitions) |-> schema.definitions[i][1]]
               = ListedDefinitions(schema)
     /\ schema.type = NearestType(<<NodeOf(schema)>> \o hops)
     /\ NodesOf(schema.refs) = hops

\* C26: a root that resolve has returned is fully built: its definitions have an
\* entry for every name of its definitions container, and its type and refs are set;
\* also when the call ran while another call was still resolving the definitions.
C26_ReturnedRootIsBuilt ==
  \A t \in ResolveCalls :
    (Done(t) /\ tasks[t].ret.id # NoObject /\ Result(t).isRoot)
      => FullyBuilt(tasks[t].ret.id)

-----------------------------------------------------------------------------
(* The resolver after a failed call.                                       *)

Failed0(t) == tasks[t].status = "failed"

\* C27: a resolve call that failed leaves no unfinished schema behind: the cache has
\* no entry for its URL or a fully built one, and a later resolve of the same URL
\* that returns gives a fully built schema.
C27_FailureLeavesNoEntry ==
  \A t \in ResolveCalls :
    Failed0(t)
      => /\ tasks[t].url \in DOMAIN resolvedSchemasByUrl
              => FullyBuilt(resolvedSchemasByUrl[tasks[t].url])
         /\ \A later \in ResolveCalls :
              (t < later /\ tasks[later].url = tasks[t].url /\ Done(later))
                => FullyBuilt(tasks[later].ret.id)

\* what holds instead: only a failure while resolving a root's definitions leaves an
\* entry; a call that fails before its schema is created leaves none
FailureBeforeCreationLeavesNoEntry ==
  \A t \in ResolveCalls :
    (Failed0(t) /\ tasks[t].url \in DOMAIN resolvedSchemasByUrl)
      => /\ resolvedSchemas[resolvedSchemasByUrl[tasks[t].url]].isRoot
         /\ ListedDefinitions(resolvedSchemas[resolvedSchemasByUrl[tasks[t].url]]) # <<>>

-----------------------------------------------------------------------------
(* Termination.                                                            *)

\* a call that is still running after 2^MaxStepsLog2 steps without waiting for a
\* document
Diverged(t) == tasks[t].status = "diverged"
\* the $ref chain from a node comes back to a node it has visited
ChainRevisits(node) ==
  LET hops == <<node>> \o HopsFrom(node, MaxChain) IN
  \E i, j \in 1..Len(hops) : i < j /\ hops[i] = hops[j]

\* C28: every call of the resolver ends, also for a $ref chain that revisits a node
\* and for a definition that refers back to its root.
C28_ResolveTerminates == \A t \in Calls : ~Diverged(t)

\* what holds instead: a call ends unless a $ref chain it follows revisits a node;
\* then resolveSchemaReferences keeps following the chain, collecting the same
\* RawSchemas again
TerminatesUnlessChainRevisits ==
  \A t \in Calls :
    Diverged(t)
      => \E k \in 1..Len(tasks[t].stack) :
           /\ tasks[t].stack[k].fn = "resolveSchemaReferences"
           /\ ChainRevisits(NodeOf(rawSchemas[tasks[t].stack[k].a]))
           /\ \E i, j \in 1..Len(tasks[t].stack[k].list) :
                i < j /\ tasks[t].stack[k].list[i] = tasks[t].stack[k].list[j]
\* a root whose definition refers back to it, and a property that refers to its
\* root, resolve
RefersBackResolves ==
  \A t \in ResolveCalls :
    (tasks[t].url \in {DocUrl("back.yaml"), FragUrl("back.yaml", <<"$defs", "up">>),
                       FragUrl("loop.yaml", <<"properties", "up">>)}
     /\ tasks[t].status # "loading")
      => Done(t)

-----------------------------------------------------------------------------
(* The emitter: references between declarations.                           *)

\* the declarations the emitter has made, by schema
Declarations == {schemaToModel[url] : url \in DOMAIN schemaToModel}
\* a text uses an identifier as a reference: a property type, an `is` or `extends`
\* base, a spread
RefersTo(text, name) ==
  \E before \in {": ", " is ", "... ", " extends "} :
    \E after \in {";", "["} : Contains(text, before \o name \o after)
\* the text of a declaration is in the output
IsEmitted(decl) ==
  \E k \in 1..Len(appended) :
    appended[k].schema = decl.id /\ Contains(appended[k].text, decl.name)

\* C29: in the text emit returns, every declaration referred to by its identifier has
\* its own text in the output.
C29_ReferencesAreEmitted ==
  Emitted0 =>
    \A k \in 1..Len(appended) : \A decl \in Declarations :
      (decl.id # appended[k].schema /\ RefersTo(appended[k].text, decl.name))
        => IsEmitted(decl)

\* what holds instead: a declaration referred to without a text of its own is one
\* whose emission failed after its identifier was made, or one of type null
ReferencesAreEmittedOrFailed ==
  Emitted0 =>
    \A k \in 1..Len(appended) : \A decl \in Declarations :
      (decl.id # appended[k].schema /\ RefersTo(appended[k].text, decl.name))
        => \/ IsEmitted(decl)
           \/ decl.id \in Failed
           \/ resolvedSchemas[decl.id].type = "null"

-----------------------------------------------------------------------------
(* The emitter: the base of a model.                                       *)

\* the schema a model declaration was made for has a referencedSchema
HasBase(t) == resolvedSchemas[tasks[t].a].referencedSchema # NoObject
BaseOf(t) == resolvedSchemas[tasks[t].a].referencedSchema

\* C30: the referencedSchema of a schema contributes to its model once: it is the
\* base of the `is` clause and is neither spread nor flattened into the model, with
\* and without `required`.
C30_BaseContributesOnce ==
  \A t \in ModelDecls :
    HasBase(t)
      => /\ Contains(tasks[t].ret.code, " is ")
         /\ BaseOf(t) \notin Elements(tasks[t].ret.spreads)
         /\ BaseOf(t) \notin Elements(tasks[t].ret.flattens)

\* what holds instead: the base is never spread, and it is flattened into the model
\* beside the `is` clause exactly when `required` forces flattening
BaseFlattenedWhenRequired ==
  \A t \in ModelDecls :
    HasBase(t)
      => /\ Contains(tasks[t].ret.code, " is ")
         /\ BaseOf(t) \notin Elements(tasks[t].ret.spreads)
         /\ BaseOf(t) \in Elements(tasks[t].ret.flattens)
              <=> RequiredInComposition(tasks[t].a, MaxChain)
\* a model with a base and `required`, and one with a base and without
BaseWithAndWithoutRequired ==
  /\ \E t \in ModelDecls : HasBase(t) /\ RequiredInComposition(tasks[t].a, MaxChain)
  /\ \E t \in ModelDecls : HasBase(t) /\ ~RequiredInComposition(tasks[t].a, MaxChain)

=============================================================================
